---- MODULE Spec2Model ----
(***************************************************************************)
(* Verification model of the recipe-sharing client: the global store      *)
(* (zustand, `useAppStore`), and the views that drive it.  Every          *)
(* asynchronous store action is split at its `await`: a *_start action    *)
(* (the synchronous prefix, which sends the request) and Complete (the    *)
(* continuation, run when the response arrives).                          *)
(***************************************************************************)
EXTENDS Integers, Sequences, FiniteSets, TLC

(* ----------------------------- bounds --------------------------------- *)
MaxRatingCount == 3   \* cap on rating_count of the loaded recipe
MaxComments == 1      \* cap on the comments of the loaded recipe
MaxSteps == 3         \* cap on the instruction steps of the recipe form
MaxDbRows == 3        \* cap on the sequence values that statements of clients draw
MaxTimers == 3        \* cap on the auto-clear timers of notifications that are pending

\* Requests of the store that may be in flight at once are numbered by Slots.
Slots == {1, 2}
RecipeIds == {1, 2}
CommentIds == {1, 2}
Users == {1, 2}
\* The access tokens the server issues to this client: user 1 is the one who logs in
\* here, user 2 exists on the server (as a recipe owner, comment author and rater).
Tokens == {"t1"}
NoToken == "null"

\* The server resolves a bearer token to the user it was issued to.
TokenUser(t) == IF t = "t1" THEN 1 ELSE 2

\* A nullable value is a sequence of length 0 (null) or 1.
Null == <<>>
Some(x) == <<x>>
IsNull(v) == v = <<>>
Val(v) == v[1]

(* --------------------------- store state ------------------------------ *)
VARIABLES
  store,        \* the fields of the zustand store (auth, profile, recipe and ui slices)
  axios_auth,   \* axiosInstance.defaults.headers.common.Authorization
  inflight,     \* requests of store actions awaiting their response, in start order
  srv_ratings,  \* the server's ratings table: pairs <<user_id, recipe_id>>
  store_ev,     \* the store action step that just ran, with its outcome
  form,         \* the recipe form view (UV_SubmitRecipe): its state hooks and requests
  saved_view,   \* the saved-recipes view (UV_UserSavedRecipes): its query and mutation
  search,       \* the search view (UV_SearchResults): the URL and its state hooks
  login_view,   \* the login view (UV_Login): its inputs and errors
  register_view,\* the registration view (UV_Register): its inputs and errors
  recipe_view,  \* the recipe view (UV_RecipeView): its local state
  browse,       \* the browse view (UV_BrowseRecipes): the URL and its state hooks
  profile_edit, \* the profile edit view (UV_UserProfileEdit): its state hooks
  password_reset,\* the password reset view (UV_PasswordReset): its state hooks
  timers,       \* the callbacks that setTimeout of showNotification holds, not yet run
  last_fetch,   \* history: the most recently started fetchRecipeById call and its result
  db            \* the database: the rows of its tables, its sequences, the seed script

store_vars == <<store, axios_auth, inflight, srv_ratings, store_ev>>

\* The variables of the views, of the timers, of the history and of the database,
\* which no store action touches.
view_vars == <<form, saved_view, search, login_view, register_view, recipe_view, browse, profile_edit, password_reset, timers, last_fetch, db>>

\* What an action of one view leaves alone among the views.
views_but_form == <<saved_view, search, login_view, register_view, recipe_view, browse, profile_edit, password_reset, timers, last_fetch, db>>
views_but_saved == <<form, search, login_view, register_view, recipe_view, browse, profile_edit, password_reset, timers, last_fetch, db>>
views_but_search == <<form, saved_view, login_view, register_view, recipe_view, browse, profile_edit, password_reset, timers, last_fetch, db>>
views_but_login == <<form, saved_view, search, register_view, recipe_view, browse, profile_edit, password_reset, timers, last_fetch, db>>
views_but_register == <<form, saved_view, search, login_view, recipe_view, browse, profile_edit, password_reset, timers, last_fetch, db>>
views_but_recipe == <<form, saved_view, search, login_view, register_view, browse, profile_edit, password_reset, timers, last_fetch, db>>
views_but_browse == <<form, saved_view, search, login_view, register_view, recipe_view, profile_edit, password_reset, timers, last_fetch, db>>
views_but_profile ==
  <<form, saved_view, search, login_view, register_view, recipe_view, browse,
    password_reset, timers, last_fetch, db>>
views_but_reset ==
  <<form, saved_view, search, login_view, register_view, recipe_view, browse,
    profile_edit, timers, last_fetch, db>>
views_but_timers ==
  <<form, saved_view, search, login_view, register_view, recipe_view, browse,
    profile_edit, password_reset, last_fetch, db>>
views_but_last_fetch ==
  <<form, saved_view, search, login_view, register_view, recipe_view, browse,
    profile_edit, password_reset, timers, db>>
views_but_db == <<form, saved_view, search, login_view, register_view, recipe_view, browse, profile_edit, password_reset, timers, last_fetch>>

vars == <<store_vars, view_vars>>

\* The owner (submitter) of recipe r and the author of comment c, as the server
\* reports them.
RecipeOwner(r) == IF r % 2 = 1 THEN 1 ELSE 2
CommentAuthor(c) == IF c % 2 = 1 THEN 1 ELSE 2

Profile(u) == [user_id |-> u, profile_picture_url |-> "p0"]

\* Sequences over S without repetition, of length at most n.
SeqsNoDup(S, n) ==
  {q \in UNION {[1..k -> S] : k \in 0..n} :
     \A i, j \in 1..Len(q) : i # j => q[i] # q[j]}

RemoveAt(q, i) == SubSeq(q, 1, i - 1) \o SubSeq(q, i + 1, Len(q))

(* --------------------------- responses -------------------------------- *)
\* An HTTP response or a failure without one (status 0).  body_error is the
\* response body's `error` field and err_message the Error's own message; ""
\* stands for an absent (falsy) one.  message is response.data.message.
OkResponses == {[status |-> 200, body_error |-> "", err_message |-> "", message |-> m] :
                  m \in {"", "srv message"}}
ErrResponses ==
  {[status |-> 401, body_error |-> be, err_message |-> "Request failed", message |-> ""] :
     be \in {"", "body error"}}
  \cup {[status |-> 500, body_error |-> "body error", err_message |-> "Request failed",
          message |-> ""],
        [status |-> 0, body_error |-> "", err_message |-> "", message |-> ""]}
Responses == OkResponses \cup ErrResponses

\* error.response?.data?.error || error.message || fallback
ErrorMessage(resp, fallback) ==
  IF resp.body_error # "" THEN resp.body_error
  ELSE IF resp.err_message # "" THEN resp.err_message
  ELSE fallback

\* response.data.message || fallback
OkMessage(resp, fallback) == IF resp.message # "" THEN resp.message ELSE fallback

\* The step of a store action that just ran: the action, whether it was its
\* synchronous part ("start") or its continuation on a response ("done"), the
\* response's status and the value the action returned (or "none" while it awaits).
NoEv == [op |-> "none", phase |-> "none", status |-> 0, ret |-> "none"]

Ev(op, phase, arg, tok) == [NoEv EXCEPT !.op = op, !.phase = phase]

EvDone(req, resp, ret) ==
  [op |-> req.op, phase |-> "done", status |-> resp.status, ret |-> ret]

\* The filters of the recipe lists; a time is in minutes, min_rating is a multiple of
\* 0.1 and is held in tenths.
DefaultFilterParams ==
  [ tags |-> <<>>,
    difficulty |-> <<>>,
    max_prep_time |-> Null,
    max_cook_time |-> Null,
    min_rating |-> Null ]

\* The state the store is created with (the initial state object passed to
\* create()): the user-profile slice (current_user_profile, saved_recipes,
\* saved_recipes_loading) is not initialised there, so saved_recipes is undefined
\* until logout or fetchSavedRecipes assigns it.
InitStore ==
  [ is_authenticated |-> FALSE,
    access_token |-> NoToken,
    user_profile_summary |-> Null,
    current_user_profile |-> Null,
    saved_recipes_defined |-> FALSE,
    saved_recipes |-> <<>>,
    saved_recipes_loading |-> FALSE,
    current_recipe_details |-> Null,
    current_page |-> 1,       \* paginated_recipes.pagination.current_page
    filter_params |-> DefaultFilterParams,
    sort_order |-> "newest",
    search_query |-> "",
    notification |-> Null ]

\* persist/partialize: is_authenticated, access_token and user_profile_summary are
\* restored from storage when the store is created.
RehydratedStores ==
  {InitStore} \cup
  {[InitStore EXCEPT !.is_authenticated = TRUE, !.access_token = t,
                     !.user_profile_summary = Some(Profile(TokenUser(t)))] : t \in Tokens}

StoreInit ==
  /\ store \in RehydratedStores
  /\ axios_auth = IF store.access_token = NoToken THEN <<>>
                  ELSE <<"Bearer", store.access_token>>
  /\ inflight = <<>>
  /\ srv_ratings = {<<2, 1>>}
  /\ store_ev = NoEv

showNotification(s, message, type) ==
  [s EXCEPT !.notification = Some([message |-> message, type |-> type])]

\* A faulty logout, for comparison: it leaves the access token in the store.
Logout_keeping_token(s) ==
  [s EXCEPT !.is_authenticated = FALSE,
            !.user_profile_summary = Null, !.current_user_profile = Null,
            !.saved_recipes = <<>>, !.saved_recipes_defined = TRUE]

Logout(s) ==
  [s EXCEPT !.is_authenticated = FALSE, !.access_token = NoToken,
            !.user_profile_summary = Null, !.current_user_profile = Null,
            !.saved_recipes = <<>>, !.saved_recipes_defined = TRUE]

Bearer(t) == <<"Bearer", t>>

\* A request as it leaves the client: the action, its argument, the access_token the
\* action read with get(), and the Authorization header the axios instance sent.
Req(op, arg, auth) == [op |-> op, arg |-> arg, tok |-> store.access_token, auth |-> auth]

\* `const { access_token } = get(); if (!access_token) return <failret>;` followed by
\* `axiosInstance.defaults.headers.common.Authorization = ...` and the request.
AuthSend_call(op, arg, failret) ==
  IF store.access_token = NoToken
  THEN /\ store_ev' = [Ev(op, "start", arg, NoToken) EXCEPT !.ret = failret]
       /\ UNCHANGED <<store, axios_auth, inflight, srv_ratings>>
  ELSE /\ Len(inflight) < Cardinality(Slots)
       /\ axios_auth' = Bearer(store.access_token)
       /\ inflight' = Append(inflight, Req(op, arg, axios_auth'))
       /\ store_ev' = Ev(op, "start", arg, store.access_token)
       /\ UNCHANGED <<store, srv_ratings>>

AuthSend(op, arg, failret) ==
  /\ AuthSend_call(op, arg, failret)
  /\ UNCHANGED view_vars

\* The request at position i of inflight is of action op.
Pending(i, op) == i \in 1..Len(inflight) /\ inflight[i].op = op

\* showNotification with its timer: set({ notification }) and setTimeout(callback,
\* 3000), where the callback keeps the message of its call.  A pending timer is held
\* with that message and, as history, with whether the notification now displayed is
\* the one its call displayed.
showNotification_call(message, type) ==
  /\ Len(timers) < MaxTimers
  /\ store' = showNotification(store, message, type)
  /\ timers' = Append([k \in 1..Len(timers) |-> [timers[k] EXCEPT !.displayed = FALSE]],
                      [message |-> message, displayed |-> TRUE])
  /\ store_ev' = Ev("showNotification", "done", 0, store.access_token)
  /\ UNCHANGED <<axios_auth, inflight, srv_ratings, views_but_timers>>

\* The callback of the timer that is due (timers of one delay run in the order they
\* were set): state.notification?.message === message ? { notification: null } : state
showNotification_timeout ==
  /\ timers # <<>>
  /\ store' = IF ~IsNull(store.notification)
                 /\ Val(store.notification).message = Head(timers).message
              THEN [store EXCEPT !.notification = Null]
              ELSE store
  /\ timers' = Tail(timers)
  /\ store_ev' = Ev("showNotification_timeout", "done", 0, store.access_token)
  /\ UNCHANGED <<axios_auth, inflight, srv_ratings, views_but_timers>>

NotificationMessages == {"Recipe saved", "Recipe unsaved", "Profile updated"}
NotificationTypes == {"success", "error"}

(* ------------------------- auth actions ------------------------------- *)
\* What login and register do to the store; the views that call them add their own
\* part of the step.
login_call ==
  /\ Len(inflight) < Cardinality(Slots)
  /\ inflight' = Append(inflight, Req("login", 0, axios_auth))
  /\ store_ev' = Ev("login", "start", 0, store.access_token)
  /\ UNCHANGED <<store, axios_auth, srv_ratings>>

login ==
  /\ login_call
  /\ UNCHANGED view_vars

\* On success login stores the session and calls loadUserProfile(), whose
\* synchronous prefix sets the header and sends GET /users/me.
login_settle(i, resp) ==
  /\ Pending(i, "login")
  /\ IF resp.status = 200
     THEN \E t \in Tokens :
            /\ store' = [store EXCEPT !.is_authenticated = TRUE, !.access_token = t,
                           !.user_profile_summary = Some(Profile(TokenUser(t)))]
            /\ axios_auth' = Bearer(t)
            /\ inflight' = Append(RemoveAt(inflight, i),
                                  [op |-> "loadUserProfile", arg |-> 0, tok |-> t,
                                   auth |-> Bearer(t)])
            /\ store_ev' = EvDone(inflight[i], resp, "true")
     ELSE /\ store' = [store EXCEPT !.is_authenticated = FALSE, !.access_token = NoToken,
                          !.user_profile_summary = Null]
          /\ inflight' = RemoveAt(inflight, i)
          /\ store_ev' = EvDone(inflight[i], resp, "false")
          /\ UNCHANGED axios_auth
  /\ UNCHANGED srv_ratings

login_response(i, resp) ==
  /\ login_settle(i, resp)
  /\ UNCHANGED view_vars

logout ==
  /\ store' = Logout(store)
  /\ store_ev' = Ev("logout", "done", 0, store.access_token)
  /\ UNCHANGED <<axios_auth, inflight, srv_ratings>>
  /\ UNCHANGED view_vars

register_call ==
  /\ Len(inflight) < Cardinality(Slots)
  /\ inflight' = Append(inflight, Req("register", 0, axios_auth))
  /\ store_ev' = Ev("register", "start", 0, store.access_token)
  /\ UNCHANGED <<store, axios_auth, srv_ratings>>

register ==
  /\ register_call
  /\ UNCHANGED view_vars

register_settle(i, resp) ==
  /\ Pending(i, "register")
  /\ inflight' = RemoveAt(inflight, i)
  /\ store_ev' = EvDone(inflight[i], resp, IF resp.status = 200 THEN "true" ELSE "false")
  /\ UNCHANGED <<store, axios_auth, srv_ratings>>

register_response(i, resp) ==
  /\ register_settle(i, resp)
  /\ UNCHANGED view_vars

loadUserProfile == AuthSend("loadUserProfile", 0, "undefined")

loadUserProfile_settle(i, resp) ==
  /\ Pending(i, "loadUserProfile")
  /\ IF resp.status = 200
     THEN store' = [store EXCEPT
                      !.current_user_profile = Some(Profile(TokenUser(inflight[i].tok))),
                      !.user_profile_summary = Some(Profile(TokenUser(inflight[i].tok)))]
     ELSE store' = IF resp.status = 401 THEN Logout(store) ELSE store
  /\ inflight' = RemoveAt(inflight, i)
  /\ store_ev' = EvDone(inflight[i], resp, "undefined")
  /\ UNCHANGED <<axios_auth, srv_ratings>>

loadUserProfile_response(i, resp) ==
  /\ loadUserProfile_settle(i, resp)
  /\ UNCHANGED view_vars

updateUserProfile == AuthSend("updateUserProfile", 0, "false")

updateUserProfile_response(i, resp) ==
  /\ Pending(i, "updateUserProfile")
  /\ IF resp.status = 200
     THEN /\ store' = showNotification(
                [store EXCEPT
                   !.current_user_profile = Some(Profile(TokenUser(inflight[i].tok))),
                   !.user_profile_summary = Some(Profile(TokenUser(inflight[i].tok)))],
                OkMessage(resp, "Profile updated successfully"), "success")
          /\ store_ev' = EvDone(inflight[i], resp, "true")
     ELSE /\ store' = showNotification(store, ErrorMessage(resp, "Update profile failed"),
                                       "error")
          /\ store_ev' = EvDone(inflight[i], resp, "false")
  /\ inflight' = RemoveAt(inflight, i)
  /\ UNCHANGED <<axios_auth, srv_ratings>>
  /\ UNCHANGED view_vars

uploadProfilePicture == AuthSend("uploadProfilePicture", 0, "false")

WithPicture(p, url) ==
  IF IsNull(p) THEN Null ELSE Some([Val(p) EXCEPT !.profile_picture_url = url])

uploadProfilePicture_response(i, resp) ==
  /\ Pending(i, "uploadProfilePicture")
  /\ IF resp.status = 200
     THEN /\ store' = showNotification(
                [store EXCEPT
                   !.user_profile_summary = WithPicture(store.user_profile_summary, "p1"),
                   !.current_user_profile = WithPicture(store.current_user_profile, "p1")],
                OkMessage(resp, "Profile picture updated"), "success")
          /\ store_ev' = EvDone(inflight[i], resp, "true")
     ELSE /\ store' = showNotification(store, ErrorMessage(resp, "Upload failed"), "error")
          /\ store_ev' = EvDone(inflight[i], resp, "false")
  /\ inflight' = RemoveAt(inflight, i)
  /\ UNCHANGED <<axios_auth, srv_ratings>>
  /\ UNCHANGED view_vars

(* ------------------------ recipe actions ------------------------------ *)
\* GET /recipes/{id} as the server answers it: rating_count is the number of rows
\* of the ratings table for the recipe (UNIQUE (recipe_id, user_id)).
ServerRatingCount(r) == Cardinality({u \in Users : <<u, r>> \in srv_ratings})

CommentLists == SeqsNoDup(CommentIds, MaxComments)

RecipeDetail(r, comments) ==
  [recipe_id |-> r, rating_count |-> ServerRatingCount(r), comments |-> comments,
   submitter |-> RecipeOwner(r), is_recipe_saved |-> "unset"]

fetchRecipeById_start(s, r) == [s EXCEPT !.current_recipe_details = Null]

fetchRecipeById_call(r) ==
  /\ Len(inflight) < Cardinality(Slots)
  /\ store' = fetchRecipeById_start(store, r)
  /\ inflight' = Append(inflight, Req("fetchRecipeById", r, axios_auth))
  /\ store_ev' = Ev("fetchRecipeById", "start", r, store.access_token)
  /\ UNCHANGED <<axios_auth, srv_ratings>>

fetchRecipeById(r) ==
  /\ fetchRecipeById_call(r)
  /\ UNCHANGED view_vars

fetchRecipeById_settle(i, resp) ==
  /\ Pending(i, "fetchRecipeById")
  /\ IF resp.status = 200
     THEN \E comments \in CommentLists :
            /\ store' = [store EXCEPT !.current_recipe_details =
                                         Some(RecipeDetail(inflight[i].arg, comments))]
            /\ store_ev' = EvDone(inflight[i], resp, "value")
     ELSE /\ store' = [store EXCEPT !.current_recipe_details = Null]
          /\ store_ev' = EvDone(inflight[i], resp, "null")
  /\ inflight' = RemoveAt(inflight, i)
  /\ UNCHANGED <<axios_auth, srv_ratings>>

fetchRecipeById_response(i, resp) ==
  /\ fetchRecipeById_settle(i, resp)
  /\ UNCHANGED view_vars

\* The same two steps with the history kept: last_fetch.pending says that the most
\* recently started call is in flight (it is then the last fetchRecipeById request of
\* inflight), last_fetch.result is what that call resolved to once it has.
fetchRecipeById_recorded(r) ==
  /\ fetchRecipeById_call(r)
  /\ last_fetch' = [pending |-> TRUE, result |-> Null]
  /\ UNCHANGED views_but_last_fetch

fetchRecipeById_response_recorded(i, resp) ==
  /\ fetchRecipeById_settle(i, resp)
  /\ last_fetch' =
       IF /\ last_fetch.pending
          /\ \A k \in (i + 1)..Len(inflight) : inflight[k].op # "fetchRecipeById"
       THEN [pending |-> FALSE, result |-> Some(store'.current_recipe_details)]
       ELSE last_fetch
  /\ UNCHANGED views_but_last_fetch

submitRecipe == AuthSend("submitRecipe", 0, "null")

submitRecipe_response(i, resp) ==
  /\ Pending(i, "submitRecipe")
  /\ IF resp.status = 200
     THEN /\ store' = showNotification(store, OkMessage(resp, "Recipe submitted successfully"),
                                       "success")
          /\ store_ev' = EvDone(inflight[i], resp, "value")
     ELSE /\ store' = showNotification(store, ErrorMessage(resp, "Failed to submit recipe"),
                                       "error")
          /\ store_ev' = EvDone(inflight[i], resp, "null")
  /\ inflight' = RemoveAt(inflight, i)
  /\ UNCHANGED <<axios_auth, srv_ratings>>
  /\ UNCHANGED view_vars

updateRecipe(r) == AuthSend("updateRecipe", r, "false")

\* On success updateRecipe re-fetches the recipe when it is the one loaded:
\* fetchRecipeById's synchronous prefix runs inside this continuation.
updateRecipe_response(i, resp) ==
  /\ Pending(i, "updateRecipe")
  /\ IF resp.status = 200
     THEN LET notified == showNotification(store,
                            OkMessage(resp, "Recipe updated successfully"), "success")
              refetch == /\ ~IsNull(store.current_recipe_details)
                         /\ Val(store.current_recipe_details).recipe_id = inflight[i].arg
          IN /\ store' = IF refetch THEN fetchRecipeById_start(notified, inflight[i].arg)
                         ELSE notified
             /\ inflight' = IF refetch
                            THEN Append(RemoveAt(inflight, i),
                                        [op |-> "fetchRecipeById", arg |-> inflight[i].arg,
                                         tok |-> store.access_token, auth |-> axios_auth])
                            ELSE RemoveAt(inflight, i)
             /\ store_ev' = EvDone(inflight[i], resp, "true")
     ELSE /\ store' = showNotification(store, ErrorMessage(resp, "Failed to update recipe"),
                                       "error")
          /\ inflight' = RemoveAt(inflight, i)
          /\ store_ev' = EvDone(inflight[i], resp, "false")
  /\ UNCHANGED <<axios_auth, srv_ratings>>
  /\ UNCHANGED view_vars

submitRating(r) == AuthSend("submitRating", r, "false")

\* rating_count ? rating_count + 1 : 1
IncrementRatingCount(n) == IF n # 0 THEN n + 1 ELSE 1

\* The set() callback of submitRating's success branch.
submitRating_update(s, r) ==
  IF ~IsNull(s.current_recipe_details) /\ Val(s.current_recipe_details).recipe_id = r
  THEN [s EXCEPT !.current_recipe_details =
                    Some([Val(s.current_recipe_details) EXCEPT
                            !.rating_count = IncrementRatingCount(@)])]
  ELSE s

\* The server keeps one rating row per (recipe, user): a second POST by the same
\* user updates the row.
submitRating_settle(i, resp) ==
  /\ Pending(i, "submitRating")
  /\ IF resp.status = 200
     THEN LET user == TokenUser(inflight[i].tok)
              r == inflight[i].arg
          IN /\ IF IsNull(store.current_recipe_details) THEN TRUE
                ELSE Val(store.current_recipe_details).rating_count < MaxRatingCount
             /\ store' = submitRating_update(
                           showNotification(store, OkMessage(resp, "Rating submitted"),
                                            "success"), r)
             /\ srv_ratings' = srv_ratings \cup {<<user, r>>}
             /\ store_ev' = EvDone(inflight[i], resp, "true")
     ELSE /\ store' = showNotification(store, ErrorMessage(resp, "Failed to submit rating"),
                                       "error")
          /\ store_ev' = EvDone(inflight[i], resp, "false")
          /\ UNCHANGED srv_ratings
  /\ inflight' = RemoveAt(inflight, i)
  /\ UNCHANGED axios_auth

submitRating_response(i, resp) ==
  /\ submitRating_settle(i, resp)
  /\ UNCHANGED view_vars

postComment(r) == AuthSend("postComment", r, "null")

postComment_update(s, r, c) ==
  IF ~IsNull(s.current_recipe_details) /\ Val(s.current_recipe_details).recipe_id = r
  THEN [s EXCEPT !.current_recipe_details =
                    Some([Val(s.current_recipe_details) EXCEPT
                            !.comments = Append(@, c)])]
  ELSE s

postComment_response(i, resp) ==
  /\ Pending(i, "postComment")
  /\ IF resp.status = 200
     THEN \E c \in CommentIds :
            /\ IF IsNull(store.current_recipe_details) THEN TRUE
               ELSE /\ Len(Val(store.current_recipe_details).comments) < MaxComments
                    /\ \A k \in 1..Len(Val(store.current_recipe_details).comments) :
                          Val(store.current_recipe_details).comments[k] # c
            /\ CommentAuthor(c) = TokenUser(inflight[i].tok)
            /\ store' = showNotification(postComment_update(store, inflight[i].arg, c),
                                         "Comment posted successfully", "success")
            /\ store_ev' = EvDone(inflight[i], resp, "value")
     ELSE /\ store' = showNotification(store, ErrorMessage(resp, "Failed to post comment"),
                                       "error")
          /\ store_ev' = EvDone(inflight[i], resp, "null")
  /\ inflight' = RemoveAt(inflight, i)
  /\ UNCHANGED <<axios_auth, srv_ratings>>
  /\ UNCHANGED view_vars

deleteComment(c) == AuthSend("deleteComment", c, "false")

deleteComment_update(s, c) ==
  IF ~IsNull(s.current_recipe_details)
  THEN [s EXCEPT !.current_recipe_details =
                    Some([Val(s.current_recipe_details) EXCEPT
                            !.comments = SelectSeq(@, LAMBDA x : x # c)])]
  ELSE s

deleteComment_settle(i, resp) ==
  /\ Pending(i, "deleteComment")
  /\ IF resp.status = 200
     THEN /\ store' = deleteComment_update(
                        showNotification(store, OkMessage(resp, "Comment deleted"),
                                         "success"), inflight[i].arg)
          /\ store_ev' = EvDone(inflight[i], resp, "true")
     ELSE /\ store' = showNotification(store, ErrorMessage(resp, "Failed to delete comment"),
                                       "error")
          /\ store_ev' = EvDone(inflight[i], resp, "false")
  /\ inflight' = RemoveAt(inflight, i)
  /\ UNCHANGED <<axios_auth, srv_ratings>>

deleteComment_response(i, resp) ==
  /\ deleteComment_settle(i, resp)
  /\ UNCHANGED view_vars

(* --------------------- saved-recipes actions -------------------------- *)
\* An entry of saved_recipes; saved_at and the recipe's display fields are left out.
SavedEntry(r) == [recipe_id |-> r]

\* The lists GET /users/me/saved-recipes may return (UNIQUE (user_id, recipe_id)).
SavedLists ==
  {[k \in 1..Len(q) |-> SavedEntry(q[k])] : q \in SeqsNoDup(RecipeIds, Cardinality(RecipeIds))}

HasRecipe(list, r) == \E k \in 1..Len(list) : list[k].recipe_id = r

WithSavedFlag(d, flag) ==
  IF IsNull(d) THEN d ELSE Some([Val(d) EXCEPT !.is_recipe_saved = flag])

\* A faulty callback, for comparison: it adds the entry without looking for it.
saveRecipe_update_always_adding(s, r) ==
  [s EXCEPT !.current_recipe_details = WithSavedFlag(@, "true"),
            !.saved_recipes = Append(@, SavedEntry(r))]

\* The set() callback of saveRecipe's success branch.
saveRecipe_update(s, r) ==
  LET stamped == [k \in 1..Len(s.saved_recipes) |->
                    IF s.saved_recipes[k].recipe_id = r
                    THEN SavedEntry(r) ELSE s.saved_recipes[k]]
      updatedSavedRecipes == IF HasRecipe(stamped, r) THEN stamped
                             ELSE Append(stamped, SavedEntry(r))
  IN [s EXCEPT !.current_recipe_details = WithSavedFlag(@, "true"),
               !.saved_recipes = updatedSavedRecipes]

\* A faulty callback, for comparison: it empties the saved list.
unsaveRecipe_update_clearing_list(s, r) ==
  [s EXCEPT !.current_recipe_details = WithSavedFlag(@, "false"),
            !.saved_recipes = <<>>]

\* The set() callback of unsaveRecipe's success branch.
unsaveRecipe_update(s, r) ==
  [s EXCEPT !.current_recipe_details = WithSavedFlag(@, "false"),
            !.saved_recipes = SelectSeq(@, LAMBDA e : e.recipe_id # r)]

\* state.saved_recipes.map / .filter throws a TypeError while saved_recipes is still
\* undefined; the throw happens inside the try block, after the success
\* notification, so the catch branch runs with the TypeError.
TypeErrorResp ==
  [status |-> 0, body_error |-> "", err_message |-> "TypeError", message |-> ""]

saveRecipe(r) == AuthSend("saveRecipe", r, "false")

\* A faulty catch branch, for comparison: it also throws the saved list away.
saveRecipe_catch_dropping_list(s, resp) ==
  showNotification([s EXCEPT !.saved_recipes = <<>>],
                   ErrorMessage(resp, "Failed to save recipe"), "error")

saveRecipe_catch(s, resp) ==
  showNotification(s, ErrorMessage(resp, "Failed to save recipe"), "error")

saveRecipe_settle(i, resp) ==
  /\ Pending(i, "saveRecipe")
  /\ IF resp.status = 200
     THEN IF store.saved_recipes_defined
          THEN /\ store' = saveRecipe_update(
                             showNotification(store, OkMessage(resp, "Recipe saved"),
                                              "success"), inflight[i].arg)
               /\ store_ev' = EvDone(inflight[i], resp, "true")
          ELSE /\ store' = saveRecipe_catch(store, TypeErrorResp)
               /\ store_ev' = EvDone(inflight[i], resp, "false")
     ELSE /\ store' = saveRecipe_catch(store, resp)
          /\ store_ev' = EvDone(inflight[i], resp, "false")
  /\ inflight' = RemoveAt(inflight, i)
  /\ UNCHANGED <<axios_auth, srv_ratings>>

saveRecipe_response(i, resp) ==
  /\ saveRecipe_settle(i, resp)
  /\ UNCHANGED view_vars

unsaveRecipe(r) == AuthSend("unsaveRecipe", r, "false")

unsaveRecipe_catch(s, resp) ==
  showNotification(s, ErrorMessage(resp, "Failed to unsave recipe"), "error")

unsaveRecipe_settle(i, resp) ==
  /\ Pending(i, "unsaveRecipe")
  /\ IF resp.status = 200
     THEN IF store.saved_recipes_defined
          THEN /\ store' = unsaveRecipe_update(
                             showNotification(store, OkMessage(resp, "Recipe unsaved"),
                                              "success"), inflight[i].arg)
               /\ store_ev' = EvDone(inflight[i], resp, "true")
          ELSE /\ store' = unsaveRecipe_catch(store, TypeErrorResp)
               /\ store_ev' = EvDone(inflight[i], resp, "false")
     ELSE /\ store' = unsaveRecipe_catch(store, resp)
          /\ store_ev' = EvDone(inflight[i], resp, "false")
  /\ inflight' = RemoveAt(inflight, i)
  /\ UNCHANGED <<axios_auth, srv_ratings>>

unsaveRecipe_response(i, resp) ==
  /\ unsaveRecipe_settle(i, resp)
  /\ UNCHANGED view_vars

fetchSavedRecipes_call ==
  IF store.access_token = NoToken
  THEN /\ store' = [store EXCEPT !.saved_recipes = <<>>, !.saved_recipes_defined = TRUE,
                                 !.saved_recipes_loading = FALSE]
       /\ store_ev' = [Ev("fetchSavedRecipes", "start", 0, NoToken) EXCEPT !.ret = "false"]
       /\ UNCHANGED <<axios_auth, inflight, srv_ratings>>
  ELSE /\ Len(inflight) < Cardinality(Slots)
       /\ store' = [store EXCEPT !.saved_recipes = <<>>, !.saved_recipes_defined = TRUE,
                                 !.saved_recipes_loading = TRUE]
       /\ axios_auth' = Bearer(store.access_token)
       /\ inflight' = Append(inflight, Req("fetchSavedRecipes", 0, axios_auth'))
       /\ store_ev' = Ev("fetchSavedRecipes", "start", 0, store.access_token)
       /\ UNCHANGED srv_ratings

fetchSavedRecipes ==
  /\ fetchSavedRecipes_call
  /\ UNCHANGED view_vars

fetchSavedRecipes_settle(i, resp) ==
  /\ Pending(i, "fetchSavedRecipes")
  /\ IF resp.status = 200
     THEN \E recipes \in SavedLists :
            /\ store' = [store EXCEPT !.saved_recipes = recipes,
                                      !.saved_recipes_defined = TRUE,
                                      !.saved_recipes_loading = FALSE]
            /\ store_ev' = EvDone(inflight[i], resp, "true")
     ELSE /\ store' = LET s == [store EXCEPT !.saved_recipes_loading = FALSE]
                      IN IF resp.status = 401 THEN Logout(s) ELSE s
          /\ store_ev' = EvDone(inflight[i], resp, "false")
  /\ inflight' = RemoveAt(inflight, i)
  /\ UNCHANGED <<axios_auth, srv_ratings>>

fetchSavedRecipes_response(i, resp) ==
  /\ fetchSavedRecipes_settle(i, resp)
  /\ UNCHANGED view_vars

(* ------------------- recipe form view (UV_SubmitRecipe) --------------- *)
\* Text is a sequence of characters; " " is the whitespace character.
RECURSIVE TrimStart(_)
TrimStart(q) == IF q # <<>> /\ Head(q) = " " THEN TrimStart(Tail(q)) ELSE q

RECURSIVE TrimEnd(_)
TrimEnd(q) ==
  IF q # <<>> /\ q[Len(q)] = " " THEN TrimEnd(SubSeq(q, 1, Len(q) - 1)) ELSE q

\* String.prototype.trim
Trim(q) == TrimEnd(TrimStart(q))

\* The value of a numeric input as the form holds it: null (initial state), '' or a
\* number; NumberOf is the number JavaScript's <= compares ('' and null give 0).
NumberOf(v) == CASE v = "5" -> 5 [] v = "2" -> 2 [] OTHER -> 0

\* useState initial value of recipe_form_data (the nutrition fields, difficulty, notes
\* and tags, which no required-field check reads, are left out).
InitialRecipeFormData ==
  [ title |-> <<>>,
    description |-> <<>>,
    cover_photo_file |-> "null",
    cover_photo_url |-> "null",
    prep_time_minutes |-> "null",
    cook_time_minutes |-> "null",
    servings |-> "null",
    ingredients |-> <<[quantity |-> "", name |-> <<>>]>>,
    instructions |-> <<[step_number |-> 1, description |-> <<>>]>> ]

\* The recipe GET /recipes/{id} returns for the edit form: a complete recipe.
ServerRecipe(r) ==
  [ title |-> <<"a">>,
    description |-> <<"d">>,
    cover_photo_file |-> "null",
    cover_photo_url |-> "url",
    prep_time_minutes |-> "5",
    cook_time_minutes |-> "5",
    servings |-> "5",
    ingredients |-> <<[quantity |-> "2", name |-> <<"e">>]>>,
    instructions |-> <<[step_number |-> 1, description |-> <<"m">>]>> ]

\* A faulty body of the validation, for comparison: the title is not checked.
RecipeFormErrors_without_title(d) ==
  (IF Trim(d.description) = <<>>
   THEN {<<"description", "Recipe description is required.">>} ELSE {})
  \cup (IF d.cover_photo_file = "null" /\ d.cover_photo_url = "null"
        THEN {<<"cover_photo", "Recipe cover photo is required.">>} ELSE {})

\* The body of validate_recipe_form applied to form data d: the errors it collects.
RecipeFormErrors(d) ==
  (IF Trim(d.title) = <<>> THEN {<<"title", "Recipe title is required.">>} ELSE {})
  \cup (IF Trim(d.description) = <<>>
        THEN {<<"description", "Recipe description is required.">>} ELSE {})
  \cup (IF d.cover_photo_file = "null" /\ d.cover_photo_url = "null"
        THEN {<<"cover_photo", "Recipe cover photo is required.">>} ELSE {})
  \cup (IF d.prep_time_minutes = "" \/ NumberOf(d.prep_time_minutes) <= 0
        THEN {<<"prep_time_minutes", "Preparation time is required and must be positive.">>}
        ELSE {})
  \cup (IF d.cook_time_minutes = "" \/ NumberOf(d.cook_time_minutes) <= 0
        THEN {<<"cook_time_minutes", "Cooking time is required and must be positive.">>}
        ELSE {})
  \cup (IF d.servings = "" \/ NumberOf(d.servings) <= 0
        THEN {<<"servings", "Servings is required and must be positive.">>} ELSE {})
  \cup (IF \/ Len(d.ingredients) = 0
           \/ \E k \in 1..Len(d.ingredients) :
                \/ Trim(d.ingredients[k].name) = <<>>
                \/ d.ingredients[k].quantity = ""
                \/ NumberOf(d.ingredients[k].quantity) <= 0
        THEN {<<"ingredients", "At least one ingredient with quantity and name is required.">>}
        ELSE {})
  \cup (IF \/ Len(d.instructions) = 0
           \/ \E k \in 1..Len(d.instructions) : Trim(d.instructions[k].description) = <<>>
        THEN {<<"instructions", "At least one instruction step is required.">>} ELSE {})

\* A validation that reads the form data of the current render, for comparison.
validate_recipe_form_current(current) == RecipeFormErrors(current)

\* validate_recipe_form is memoised with useCallback(..., []): the function every
\* render uses is the one created by the first render, whose recipe_form_data is the
\* useState initial value.  `current` is the form data at the time of the call.
validate_recipe_form(current) == RecipeFormErrors(InitialRecipeFormData)

NoFormEv == [op |-> "none", sent |-> FALSE]

\* The view before it is opened, and its state hooks on mount.
FormInit ==
  form = [ mounted |-> FALSE, route_recipe_id |-> Null, query_pending |-> FALSE,
           recipe_form_data |-> InitialRecipeFormData, form_errors |-> {},
           is_editing |-> FALSE, current_recipe_id |-> Null, is_submitting |-> FALSE,
           requests |-> <<>>, ev |-> NoFormEv ]

\* What the user can type into the title, and into the other text inputs.
TitleInputs == {<<>>, <<" ">>, <<"a">>}
TextInputs == {<<>>, <<"a">>}
NumberInputs == {"5"}
RouteRecipeIds == {Null} \cup {Some(r) : r \in RecipeIds}

\* Opening /submit-recipe (route Null) or /recipes/:recipe_id/edit: the component
\* mounts with its initial state; with a recipe_id the recipeForEdit query starts.
\* A visitor who is not authenticated is sent to /login instead.
\* The requests listed in the view are those sent since it was opened.
OpenSubmitRecipe(route) ==
  /\ store.is_authenticated
  /\ form' = [ mounted |-> TRUE, route_recipe_id |-> route, query_pending |-> ~IsNull(route),
               recipe_form_data |-> InitialRecipeFormData, form_errors |-> {},
               is_editing |-> FALSE, current_recipe_id |-> Null, is_submitting |-> FALSE,
               requests |-> <<>>, ev |-> NoFormEv ]
  /\ UNCHANGED <<store_vars, views_but_form>>

\* onSuccess of the recipeForEdit query: the form is filled with the recipe and
\* switched to edit mode, whoever the recipe's submitter is.
recipeForEdit_onSuccess ==
  /\ form.mounted /\ form.query_pending
  /\ form' = [form EXCEPT !.recipe_form_data = ServerRecipe(Val(form.route_recipe_id)),
                          !.is_editing = TRUE,
                          !.current_recipe_id = form.route_recipe_id,
                          !.query_pending = FALSE,
                          !.ev = NoFormEv]
  /\ UNCHANGED <<store_vars, views_but_form>>

\* onError of the query: an error notification, and navigate('/browse').
recipeForEdit_onError(resp) ==
  /\ form.mounted /\ form.query_pending
  /\ store' = showNotification(store,
                IF resp.err_message # "" THEN resp.err_message
                ELSE "Failed to load recipe for editing", "error")
  /\ form' = [form EXCEPT !.mounted = FALSE, !.query_pending = FALSE, !.ev = NoFormEv]
  /\ UNCHANGED <<axios_auth, inflight, srv_ratings, store_ev, views_but_form>>

ClearError(errors, name) == {e \in errors : e[1] # name}

handle_change(name, value) ==
  /\ form.mounted
  /\ form' = [form EXCEPT !.recipe_form_data = [@ EXCEPT ![name] = value],
                          !.form_errors = ClearError(@, name),
                          !.ev = NoFormEv]
  /\ UNCHANGED <<store_vars, views_but_form>>

handle_number_change(fieldName, value) ==
  /\ form.mounted
  /\ form' = [form EXCEPT !.recipe_form_data = [@ EXCEPT ![fieldName] = value],
                          !.form_errors = ClearError(@, fieldName),
                          !.ev = NoFormEv]
  /\ UNCHANGED <<store_vars, views_but_form>>

\* file is "image" (an image was chosen), "not_image" or "none" (selection cancelled).
handle_cover_photo_change(file) ==
  /\ form.mounted
  /\ CASE file = "image" ->
            /\ form' = [form EXCEPT
                          !.recipe_form_data = [@ EXCEPT !.cover_photo_file = "file",
                                                         !.cover_photo_url = "blob"],
                          !.form_errors = ClearError(@, "cover_photo"),
                          !.ev = NoFormEv]
            /\ UNCHANGED store
       [] file = "not_image" ->
            /\ store' = showNotification(store, "Please upload an image file.", "error")
            /\ form' = [form EXCEPT
                          !.form_errors = ClearError(@, "cover_photo") \cup
                             {<<"cover_photo", "Invalid file type. Please upload an image.">>},
                          !.ev = NoFormEv]
       [] file = "none" ->
            /\ form' = [form EXCEPT
                          !.recipe_form_data =
                             [@ EXCEPT !.cover_photo_file = "null",
                                       !.cover_photo_url =
                                          IF form.is_editing THEN @ ELSE "null"],
                          !.ev = NoFormEv]
            /\ UNCHANGED store
  /\ UNCHANGED <<axios_auth, inflight, srv_ratings, store_ev, views_but_form>>

\* form_errors.ingredients is a string when set, so the handler's clearing of a
\* per-row error finds none and returns the errors as they are.
handleIngredientChange(index, field, value) ==
  /\ form.mounted
  /\ index \in 1..Len(form.recipe_form_data.ingredients)
  /\ form' = [form EXCEPT !.recipe_form_data.ingredients[index][field] = value,
                          !.ev = NoFormEv]
  /\ UNCHANGED <<store_vars, views_but_form>>

handleInstructionChange(index, value) ==
  /\ form.mounted
  /\ index \in 1..Len(form.recipe_form_data.instructions)
  /\ form' = [form EXCEPT
                !.recipe_form_data.instructions[index] =
                   [step_number |-> index, description |-> value],
                !.ev = NoFormEv]
  /\ UNCHANGED <<store_vars, views_but_form>>

\* A step is added with the number after the list's length.
add_instruction_step ==
  /\ form.mounted
  /\ Len(form.recipe_form_data.instructions) < MaxSteps
  /\ form' = [form EXCEPT
                !.recipe_form_data.instructions =
                   Append(@, [step_number |-> Len(@) + 1, description |-> <<>>]),
                !.ev = NoFormEv]
  /\ UNCHANGED <<store_vars, views_but_form>>

\* instructions.filter((_, i) => i !== index): the steps that stay keep their numbers.
remove_instruction_step(index) ==
  /\ form.mounted
  /\ index \in 1..Len(form.recipe_form_data.instructions)
  /\ form' = [form EXCEPT !.recipe_form_data.instructions = RemoveAt(@, index),
                          !.ev = NoFormEv]
  /\ UNCHANGED <<store_vars, views_but_form>>

InstructionsPayload_keeping_step_numbers(instructions) == instructions

\* The instructions of the request body:
\* instructions.map((inst, index) => ({ ...inst, step_number: index + 1 }))
InstructionsPayload(instructions) ==
  [k \in 1..Len(instructions) |-> [instructions[k] EXCEPT !.step_number = k]]

\* The request mutationFn sends for the form data it is given.
RecipeRequest(f) ==
  IF f.is_editing /\ ~IsNull(f.current_recipe_id)
  THEN [method |-> "PUT", recipe_id |-> Val(f.current_recipe_id),
        user |-> TokenUser(store.access_token),
        instructions |-> InstructionsPayload(f.recipe_form_data.instructions)]
  ELSE [method |-> "POST", recipe_id |-> 0, user |-> TokenUser(store.access_token),
        instructions |-> InstructionsPayload(f.recipe_form_data.instructions)]

\* Submitting the form (the submit button is disabled while a submit or the edit
\* query is pending): validate, and if valid run the mutation, which sends the
\* request.
handle_recipe_submit ==
  /\ form.mounted /\ ~form.is_submitting /\ ~form.query_pending
  /\ LET errors == validate_recipe_form(form.recipe_form_data)
         isValid == errors = {}
     IN form' = [form EXCEPT
                   !.form_errors = errors,
                   !.is_submitting = isValid,
                   !.requests = IF isValid THEN Append(@, RecipeRequest(form)) ELSE @,
                   !.ev = [op |-> "handle_recipe_submit", sent |-> isValid]]
  /\ UNCHANGED <<store_vars, views_but_form>>

\* The mutation's onSuccess: navigate to the confirmation page.
mutation_onSuccess(resp) ==
  /\ form.mounted /\ form.is_submitting
  /\ store' = showNotification(store,
                OkMessage(resp, IF form.requests[Len(form.requests)].method = "PUT"
                                THEN "Recipe updated successfully"
                                ELSE "Recipe submitted successfully"), "success")
  /\ form' = [form EXCEPT !.is_submitting = FALSE, !.mounted = FALSE, !.ev = NoFormEv]
  /\ UNCHANGED <<axios_auth, inflight, srv_ratings, store_ev, views_but_form>>

\* The mutation's onError.
mutation_onError(resp) ==
  /\ form.mounted /\ form.is_submitting
  /\ store' = showNotification(store,
                IF resp.err_message # "" THEN resp.err_message
                ELSE "Failed to submit recipe.", "error")
  /\ form' = [form EXCEPT
                !.is_submitting = FALSE,
                !.form_errors = {<<"_form", IF resp.err_message # "" THEN resp.err_message
                                            ELSE "An unexpected error occurred.">>},
                !.ev = NoFormEv]
  /\ UNCHANGED <<axios_auth, inflight, srv_ratings, store_ev, views_but_form>>

\* The recipe form.  validate_recipe_form never passes (see C6), so the mutation
\* never runs and its onSuccess and onError have no step here.
FormNext ==
  \/ \E route \in RouteRecipeIds : OpenSubmitRecipe(route)
  \/ recipeForEdit_onSuccess
  \/ \E resp \in ErrResponses : recipeForEdit_onError(resp)
  \/ \E value \in TitleInputs : handle_change("title", value)
  \/ \E value \in TextInputs : handle_change("description", value)
  \/ \E fieldName \in {"prep_time_minutes", "cook_time_minutes", "servings"},
        value \in NumberInputs : handle_number_change(fieldName, value)
  \/ \E file \in {"image", "not_image", "none"} : handle_cover_photo_change(file)
  \/ \E value \in {"", "2"} : handleIngredientChange(1, "quantity", value)
  \/ \E value \in TextInputs : handleIngredientChange(1, "name", value)
  \/ \E value \in TextInputs : handleInstructionChange(1, value)
  \/ handle_recipe_submit

\* The form with its list of instruction steps edited.
StepsNext ==
  \/ \E route \in RouteRecipeIds : OpenSubmitRecipe(route)
  \/ recipeForEdit_onSuccess
  \/ add_instruction_step
  \/ \E index \in 1..MaxSteps : remove_instruction_step(index)
  \/ \E index \in 1..MaxSteps, value \in TextInputs : handleInstructionChange(index, value)
  \/ handle_recipe_submit

(* --------------- saved-recipes view (UV_UserSavedRecipes) ------------- *)
\* The store setters the view takes from useAppStore.  The store module defines no
\* action of these names; they are taken to assign the field they are named after.
setSavedRecipes(s, recipes) ==
  [s EXCEPT !.saved_recipes = recipes, !.saved_recipes_defined = TRUE]

setSavedRecipesLoading(s, loading) == [s EXCEPT !.saved_recipes_loading = loading]

NoMutation == [phase |-> "idle", recipeId |-> 0, closure |-> <<>>, context |-> Null]

\* query_pending: the savedRecipes query is fetching; query_has_data: it has
\* succeeded before (isLoading is fetching without data).  begun records the last
\* unsave the user started: the recipe, and saved_recipes at that moment.
SavedViewInit ==
  saved_view = [mounted |-> FALSE, query_pending |-> FALSE, query_has_data |-> FALSE,
                mutation |-> NoMutation,
                begun |-> [recipeId |-> 0, before |-> <<>>], ev |-> "none"]

\* Opening /saved-recipes: the savedRecipes query starts (enabled by accessToken);
\* without a token the view navigates to /login.
OpenSavedRecipes ==
  /\ store.access_token # NoToken
  /\ ~saved_view.mounted
  /\ saved_view' = [saved_view EXCEPT !.mounted = TRUE, !.query_pending = TRUE,
                                      !.ev = "OpenSavedRecipes"]
  /\ UNCHANGED <<store_vars, views_but_saved>>

\* The query is fetched again in the background (window focus, invalidateQueries).
savedRecipesQuery_refetch ==
  /\ saved_view.mounted /\ ~saved_view.query_pending
  /\ saved_view' = [saved_view EXCEPT !.query_pending = TRUE,
                                      !.ev = "savedRecipesQuery_refetch"]
  /\ UNCHANGED <<store_vars, views_but_saved>>

savedRecipesQuery_onSuccess(recipes) ==
  /\ saved_view.mounted /\ saved_view.query_pending
  /\ store' = setSavedRecipesLoading(setSavedRecipes(store, recipes), FALSE)
  /\ saved_view' = [saved_view EXCEPT !.query_pending = FALSE, !.query_has_data = TRUE,
                                      !.ev = "savedRecipesQuery_onSuccess"]
  /\ UNCHANGED <<axios_auth, inflight, srv_ratings, store_ev, views_but_saved>>

savedRecipesQuery_onError(resp) ==
  /\ saved_view.mounted /\ saved_view.query_pending
  /\ store' = setSavedRecipesLoading(
                setSavedRecipes(
                  showNotification(store,
                    IF resp.err_message # "" THEN resp.err_message
                    ELSE "Could not load saved recipes.", "error"),
                  <<>>),
                FALSE)
  /\ saved_view' = [saved_view EXCEPT !.query_pending = FALSE,
                                      !.ev = "savedRecipesQuery_onError"]
  /\ UNCHANGED <<axios_auth, inflight, srv_ratings, store_ev, views_but_saved>>

\* savedRecipesQuery.isLoading || saved_recipes_loading
isLoading ==
  (saved_view.query_pending /\ ~saved_view.query_has_data) \/ store.saved_recipes_loading

\* Clicking Unsave on a listed recipe (the buttons are rendered when nothing is
\* loading and are disabled while the mutation is pending): mutate() runs onMutate
\* up to its `await cancelQueries`, which stops a fetch of the query.  The callbacks
\* belong to the render that showed the button, so the saved_recipes they read is
\* that render's list.
handleUnsave(recipeId) ==
  /\ saved_view.mounted
  /\ ~isLoading
  /\ store.saved_recipes_defined /\ HasRecipe(store.saved_recipes, recipeId)
  /\ saved_view.mutation.phase = "idle"
  /\ saved_view' = [saved_view EXCEPT
                      !.query_pending = FALSE,
                      !.mutation = [phase |-> "onMutate", recipeId |-> recipeId,
                                    closure |-> store.saved_recipes, context |-> Null],
                      !.begun = [recipeId |-> recipeId, before |-> store.saved_recipes],
                      !.ev = "handleUnsave"]
  /\ UNCHANGED <<store_vars, views_but_saved>>

\* The rest of onMutate: the optimistic removal, and the context it returns; then
\* mutationFn sends DELETE /users/me/saved-recipes/{id}.
unsave_onMutate ==
  /\ saved_view.mutation.phase = "onMutate"
  /\ LET previousSavedRecipes == saved_view.mutation.closure
         recipeId == saved_view.mutation.recipeId
     IN /\ store' = setSavedRecipesLoading(
                      setSavedRecipes(store,
                        SelectSeq(previousSavedRecipes,
                                  LAMBDA recipe : recipe.recipe_id # recipeId)),
                      TRUE)
        /\ saved_view' = [saved_view EXCEPT
                            !.mutation.phase = "request",
                            !.mutation.context = Some(previousSavedRecipes),
                            !.ev = "unsave_onMutate"]
  /\ UNCHANGED <<axios_auth, inflight, srv_ratings, store_ev, views_but_saved>>

unsave_onSuccess ==
  /\ saved_view.mutation.phase = "request"
  /\ store' = setSavedRecipesLoading(
                showNotification(store, "Recipe unsaved successfully!", "success"), FALSE)
  /\ saved_view' = [saved_view EXCEPT !.mutation = NoMutation, !.query_pending = TRUE,
                                      !.ev = "unsave_onSuccess"]
  /\ UNCHANGED <<axios_auth, inflight, srv_ratings, store_ev, views_but_saved>>

\* A faulty rollback, for comparison: the context is ignored.
unsave_rollback_skipped(s, context) == s

\* if (context?.previousSavedRecipes) setSavedRecipes(context.previousSavedRecipes)
\* (an array, even an empty one, is truthy).
unsave_rollback(s, context) ==
  IF IsNull(context) THEN s ELSE setSavedRecipes(s, Val(context))

unsave_onError(resp) ==
  /\ saved_view.mutation.phase = "request"
  /\ store' = setSavedRecipesLoading(
                showNotification(unsave_rollback(store, saved_view.mutation.context),
                  IF resp.err_message # "" THEN resp.err_message
                  ELSE "Failed to unsave recipe.", "error"),
                FALSE)
  /\ saved_view' = [saved_view EXCEPT !.mutation = NoMutation, !.ev = "unsave_onError"]
  /\ UNCHANGED <<axios_auth, inflight, srv_ratings, store_ev, views_but_saved>>

SavedViewNext ==
  \/ OpenSavedRecipes
  \/ savedRecipesQuery_refetch
  \/ \E recipes \in SavedLists : savedRecipesQuery_onSuccess(recipes)
  \/ \E resp \in ErrResponses : savedRecipesQuery_onError(resp)
  \/ \E recipeId \in RecipeIds : handleUnsave(recipeId)
  \/ unsave_onMutate
  \/ unsave_onSuccess
  \/ \E resp \in ErrResponses : unsave_onError(resp)

(* ------------------------------- text --------------------------------- *)
\* A text is the sequence of its characters.
Digits == <<"0", "1", "2", "3", "4", "5", "6", "7", "8", "9">>
IsDigit(c) == \E d \in DOMAIN Digits : Digits[d] = c
DigitValue(c) == (CHOOSE d \in DOMAIN Digits : Digits[d] = c) - 1

\* String(n) of a non-negative integer.
RECURSIVE StringOf(_)
StringOf(n) ==
  IF n < 10 THEN <<Digits[n + 1]>>
  ELSE StringOf(n \div 10) \o <<Digits[(n % 10) + 1]>>

\* String(x) of a non-negative multiple of 0.1, given in tenths: "3" for 3.0,
\* "4.5" for 4.5.
StringOfTenths(t) ==
  IF t % 10 = 0 THEN StringOf(t \div 10)
  ELSE StringOf(t \div 10) \o <<".">> \o StringOf(t % 10)

\* NaN, as a number that no parse of digits yields.
NaN == 0 - 1

RECURSIVE DigitPrefix(_)
DigitPrefix(text) ==
  IF text = <<>> \/ ~IsDigit(Head(text)) THEN <<>>
  ELSE <<Head(text)>> \o DigitPrefix(Tail(text))

RECURSIVE DigitsValue(_)
DigitsValue(ds) ==
  IF ds = <<>> THEN 0
  ELSE 10 * DigitsValue(SubSeq(ds, 1, Len(ds) - 1)) + DigitValue(ds[Len(ds)])

\* parseInt(text, 10) of an unsigned text: the value of its leading digits.
parseInt(text) ==
  LET ds == DigitPrefix(text)
  IN  IF ds = <<>> THEN NaN ELSE DigitsValue(ds)

\* parseFloat(text) of an unsigned text with at most one decimal, in tenths.
parseFloat(text) ==
  LET ds == DigitPrefix(text)
      rest == SubSeq(text, Len(ds) + 1, Len(text))
      tenth == IF Len(rest) >= 2 /\ rest[1] = "." /\ IsDigit(rest[2])
               THEN DigitValue(rest[2]) ELSE 0
  IN  IF ds = <<>> THEN NaN ELSE 10 * DigitsValue(ds) + tenth

\* Array.prototype.join and String.prototype.split.
RECURSIVE join(_, _)
join(list, sep) ==
  IF list = <<>> THEN <<>>
  ELSE IF Len(list) = 1 THEN list[1]
  ELSE list[1] \o <<sep>> \o join(Tail(list), sep)

RECURSIVE split(_, _)
split(text, sep) ==
  IF \A i \in DOMAIN text : text[i] # sep THEN <<text>>
  ELSE LET i == CHOOSE k \in DOMAIN text :
                  text[k] = sep /\ \A j \in 1..(k - 1) : text[j] # sep
       IN  <<SubSeq(text, 1, i - 1)>> \o split(SubSeq(text, i + 1, Len(text)), sep)

\* A parameter of the query string is null when absent; a present text is truthy
\* unless empty.
Truthy(p) == ~IsNull(p) /\ Val(p) # <<>>

(* ------------------- search view (UV_SearchResults) ------------------- *)
\* The query string of /search.  q and sort_by are words that are passed on as they
\* are; the other parameters are texts.
NoSearchParams ==
  [ q |-> Null, tags |-> Null, difficulty |-> Null, max_prep_time |-> Null,
    max_cook_time |-> Null, min_rating |-> Null, sort_by |-> Null, page |-> Null ]

\* Store setters of the list state.
setFilters(s, params) ==
  [s EXCEPT !.filter_params =
     [f \in DOMAIN s.filter_params |->
        IF f \in DOMAIN params THEN params[f] ELSE s.filter_params[f]]]

setSortOrder(s, order) == [s EXCEPT !.sort_order = order]

setSearchQuery(s, query) == [s EXCEPT !.search_query = query]

setPage(s, pageNumber) == [s EXCEPT !.current_page = pageNumber]

\* The initial values of the view's state hooks, read from the query string.
InitialFilterParams(searchParams) ==
  [ tags |-> IF Truthy(searchParams.tags)
             THEN split(Val(searchParams.tags), ",") ELSE <<>>,
    difficulty |-> IF Truthy(searchParams.difficulty)
                   THEN split(Val(searchParams.difficulty), ",") ELSE <<>>,
    max_prep_time |-> IF Truthy(searchParams.max_prep_time)
                      THEN Some(parseInt(Val(searchParams.max_prep_time))) ELSE Null,
    max_cook_time |-> IF Truthy(searchParams.max_cook_time)
                      THEN Some(parseInt(Val(searchParams.max_cook_time))) ELSE Null,
    min_rating |-> IF Truthy(searchParams.min_rating)
                   THEN Some(parseFloat(Val(searchParams.min_rating))) ELSE Null ]

\* searchParams.get('sort_by') || 'newest'
SortOrderOf(searchParams) ==
  IF IsNull(searchParams.sort_by) THEN "newest" ELSE Val(searchParams.sort_by)

\* parseInt(searchParams.get('page') || '1', 10) || 1
PageOf(searchParams) ==
  LET n == IF Truthy(searchParams.page) THEN parseInt(Val(searchParams.page)) ELSE 1
  IN  IF n = NaN \/ n = 0 THEN 1 ELSE n

\* searchParams.get('q') || ''
current_search_query_from_url(searchParams) ==
  IF IsNull(searchParams.q) THEN "" ELSE Val(searchParams.q)

SearchInit ==
  search = [ mounted |-> FALSE,
             searchParams |-> NoSearchParams,
             local_filter_params |-> DefaultFilterParams,
             local_sort_order |-> "newest",
             local_page |-> 1,
             searchResults |-> Null,
             ev |-> "none" ]

\* The effect that runs after a render in which searchParams or local_filter_params
\* changed: sort order and page are read from the query string, the filters are
\* those of the state hook.  v is the view, s the store.
URLSyncEffect(v, s) ==
  LET currentSortOrder == SortOrderOf(v.searchParams)
      currentPage == PageOf(v.searchParams)
  IN  [ view |-> [v EXCEPT !.local_sort_order = currentSortOrder,
                           !.local_page = currentPage],
        store |-> setPage(
                    setSortOrder(
                      setFilters(
                        setSearchQuery(s, current_search_query_from_url(v.searchParams)),
                        v.local_filter_params),
                      currentSortOrder),
                    currentPage) ]

\* A step of the view: the handler's result, then the effect of the render that
\* follows it.
SearchStep(v, s, op) ==
  LET r == URLSyncEffect(v, s)
  IN  /\ search' = [r.view EXCEPT !.ev = op]
      /\ store' = r.store
      /\ UNCHANGED <<axios_auth, inflight, srv_ratings, store_ev, views_but_search>>

\* The filter options the view offers, and the query strings it is entered with.
TagOptions == {<<"K", "e", "t", "o", " ", "S", "n", "a", "c", "k", "s">>,
               <<"Q", "u", "i", "c", "k", " ", "M", "e", "a", "l", "s">>}
DifficultyOptions == {<<"E", "a", "s", "y">>}
PrepTimeOptions == {"", "15"}
CookTimeOptions == {"30"}
RatingOptions == {"3.0", "4.5"}
SortOptions == {"newest", "rating"}
TotalPages == {0, 2}
PageNumbers == 0..3

\* The text of a select option.
OptionText(o) ==
  CASE o = "" -> <<>>
    [] o = "15" -> <<"1", "5">>
    [] o = "30" -> <<"3", "0">>
    [] o = "3.0" -> <<"3", ".", "0">>
    [] o = "4.5" -> <<"4", ".", "5">>

EntryUrls ==
  { [NoSearchParams EXCEPT !.q = Some("pasta")],
    [NoSearchParams EXCEPT !.q = Some("pasta"), !.sort_by = Some("rating"),
                           !.page = Some(<<"2">>), !.max_prep_time = Some(<<"1", "5">>)],
    NoSearchParams }

\* The view is mounted on a query string.
OpenSearch(url) ==
  /\ ~search.mounted
  /\ SearchStep(
       [ mounted |-> TRUE,
         searchParams |-> url,
         local_filter_params |-> InitialFilterParams(url),
         local_sort_order |-> IF ~IsNull(url.sort_by) THEN Val(url.sort_by)
                              ELSE store.sort_order,
         local_page |-> PageOf(url),
         searchResults |-> Null,
         ev |-> "none" ],
       store, "OpenSearch")

\* The search query settles with a page of results (it runs only with a query).
searchResults_onSuccess(total_pages) ==
  /\ search.mounted
  /\ current_search_query_from_url(search.searchParams) # ""
  /\ search' = [search EXCEPT !.searchResults = Some([total_pages |-> total_pages]),
                              !.ev = "searchResults"]
  /\ UNCHANGED <<store_vars, views_but_search>>

\* A tag link of a result card is followed: /search?q=<q>&tags=<tag>&page=1.
FollowTagLink(tag) ==
  /\ search.mounted
  /\ ~IsNull(search.searchResults)
  /\ Val(search.searchResults).total_pages > 0
  /\ SearchStep(
       [search EXCEPT !.searchParams =
          [NoSearchParams EXCEPT
             !.q = Some(current_search_query_from_url(search.searchParams)),
             !.tags = Some(tag),
             !.page = Some(<<"1">>)]],
       store, "FollowTagLink")

\* String(value) of a filter value.
FilterText(filterName, value) ==
  IF filterName = "min_rating" THEN StringOfTenths(Val(value)) ELSE StringOf(Val(value))

handleFilterChange(filterName, value) ==
  /\ search.mounted
  /\ LET newFilters == [search.local_filter_params EXCEPT ![filterName] = value]
         currentParams ==
           IF filterName \in {"tags", "difficulty"}
           THEN IF Len(value) > 0
                THEN [search.searchParams EXCEPT ![filterName] = Some(join(value, ","))]
                ELSE [search.searchParams EXCEPT ![filterName] = Null]
           ELSE IF ~IsNull(value)
                THEN [search.searchParams EXCEPT
                        ![filterName] = Some(FilterText(filterName, value))]
                ELSE [search.searchParams EXCEPT ![filterName] = Null]
     IN  SearchStep(
           [search EXCEPT !.local_filter_params = newFilters,
                          !.local_page = 1,
                          !.searchParams = [currentParams EXCEPT !.page = Some(<<"1">>)]],
           setPage(setFilters(store, newFilters), 1),
           "handleFilterChange")

handleSortChange(newSortOrder) ==
  /\ search.mounted
  /\ SearchStep(
       [search EXCEPT !.local_sort_order = newSortOrder,
                      !.local_page = 1,
                      !.searchParams = [search.searchParams EXCEPT
                                          !.sort_by = Some(newSortOrder),
                                          !.page = Some(<<"1">>)]],
       setPage(setSortOrder(store, newSortOrder), 1),
       "handleSortChange")

\* A page is accepted when results are there and it lies within 1..total_pages.
PageAccepted(pageNumber) ==
  /\ ~IsNull(search.searchResults)
  /\ pageNumber > 0
  /\ pageNumber <= Val(search.searchResults).total_pages

handlePageChange(pageNumber) ==
  /\ search.mounted
  /\ IF PageAccepted(pageNumber)
     THEN SearchStep(
            [search EXCEPT !.local_page = pageNumber,
                           !.searchParams = [search.searchParams EXCEPT
                                               !.page = Some(StringOf(pageNumber))]],
            setPage(store, pageNumber),
            "handlePageChange")
     ELSE /\ search' = [search EXCEPT !.ev = "handlePageChange ignored"]
          /\ UNCHANGED <<store_vars, views_but_search>>

\* The page-number buttons rendered under the results, in their order:
\* Array.from({ length: Math.min(total_pages, 5) }, (_, i) => ...), with i from 0.
PageButton(local_page, total_pages, i) ==
  LET centred == local_page - 2 + i
      low == IF centred < 1 THEN i + 1 ELSE centred
  IN  IF low > total_pages THEN total_pages - (5 - 1 - i) ELSE low

PageButtons(local_page, total_pages) ==
  [n \in 1..(IF total_pages < 5 THEN total_pages ELSE 5) |->
     PageButton(local_page, total_pages, n - 1)]

handleClearFilters ==
  /\ search.mounted
  /\ SearchStep(
       [search EXCEPT !.local_filter_params = DefaultFilterParams,
                      !.local_sort_order = "newest",
                      !.local_page = 1,
                      !.searchParams = [search.searchParams EXCEPT
                                          !.tags = Null,
                                          !.difficulty = Null,
                                          !.max_prep_time = Null,
                                          !.max_cook_time = Null,
                                          !.min_rating = Null,
                                          !.sort_by = Some("newest"),
                                          !.page = Some(<<"1">>)]],
       setPage(setSortOrder(setFilters(store, DefaultFilterParams), "newest"), 1),
       "handleClearFilters")

\* The change handlers of the filter controls: a checkbox adds its option to the
\* list or removes it, a select parses its option.
Toggled(list, option) ==
  IF \E i \in DOMAIN list : list[i] = option
  THEN SelectSeq(list, LAMBDA x : x # option)
  ELSE Append(list, option)

SelectedInt(o) == IF OptionText(o) # <<>> THEN Some(parseInt(OptionText(o))) ELSE Null

SelectedFloat(o) == IF OptionText(o) # <<>> THEN Some(parseFloat(OptionText(o))) ELSE Null

SearchNext ==
  \/ \E url \in EntryUrls : OpenSearch(url)
  \/ \E total_pages \in TotalPages : searchResults_onSuccess(total_pages)
  \/ \E tag \in TagOptions : FollowTagLink(tag)
  \/ \E tag \in TagOptions :
       handleFilterChange("tags", Toggled(search.local_filter_params.tags, tag))
  \/ \E level \in DifficultyOptions :
       handleFilterChange("difficulty",
                          Toggled(search.local_filter_params.difficulty, level))
  \/ \E o \in PrepTimeOptions : handleFilterChange("max_prep_time", SelectedInt(o))
  \/ \E o \in CookTimeOptions : handleFilterChange("max_cook_time", SelectedInt(o))
  \/ \E o \in RatingOptions : handleFilterChange("min_rating", SelectedFloat(o))
  \/ \E newSortOrder \in SortOptions : handleSortChange(newSortOrder)
  \/ \E pageNumber \in PageNumbers : handlePageChange(pageNumber)
  \/ handleClearFilters

(* ------------------------- login view (UV_Login) ---------------------- *)
\* The class [\\S] of the pattern below: in a regular-expression literal \\ is an
\* escaped backslash, so the class holds the backslash and the letter S.
BackslashOrS(c) == c \in {"\\", "S"}

\* /^[\\S]+@[\\S]+\\.[\\S]+$/.test(text): one or more of the class, @, one or more
\* of the class, a backslash, any character but a line break, one or more of the
\* class.
LoginEmailRegexTest(text) ==
  \E at \in DOMAIN text, bs \in DOMAIN text :
    /\ text[at] = "@"
    /\ at > 1
    /\ (\A k \in (1)..(at - 1) : BackslashOrS(text[k]))
    /\ bs > at + 1
    /\ (\A k \in (at + 1)..(bs - 1) : BackslashOrS(text[k]))
    /\ text[bs] = "\\"
    /\ bs + 2 <= Len(text)
    /\ text[bs + 1] # "\n"
    /\ (\A k \in (bs + 2)..(Len(text)) : BackslashOrS(text[k]))

\* form_errors.general is null (<<>>) or a message, held as the parts it was put
\* together from.
validate_login_input(d) ==
  LET email_error ==
        IF Trim(d.email) = <<>> THEN <<"Email is required.">>
        ELSE IF ~LoginEmailRegexTest(d.email) THEN <<"Email address is invalid.">>
        ELSE <<>>
  IN  IF Trim(d.password) = <<>>
      THEN IF email_error # <<>> THEN email_error \o <<" and Password is required.">>
           ELSE <<"Password is required.">>
      ELSE email_error

\* general.includes(word), for the words the view looks for.
Includes(general, word) ==
  \E k \in DOMAIN general :
    CASE word = "Email" ->
           general[k] \in {"Email is required.", "Email address is invalid."}
      [] word = "Password" ->
           general[k] \in {" and Password is required.", "Password is required."}

LoginInit ==
  login_view = [ mounted |-> FALSE,
                 login_form_data |-> [email |-> <<>>, password |-> <<>>],
                 form_errors |-> <<>>,
                 is_submitting |-> FALSE,
                 login_called |-> Null,
                 ev |-> "none" ]

\* The view renders its form only while nobody is logged in.
OpenLogin ==
  /\ ~login_view.mounted
  /\ ~store.is_authenticated
  /\ login_view' = [ mounted |-> TRUE,
                     login_form_data |-> [email |-> <<>>, password |-> <<>>],
                     form_errors |-> <<>>,
                     is_submitting |-> FALSE,
                     login_called |-> Null,
                     ev |-> "OpenLogin" ]
  /\ UNCHANGED <<store_vars, views_but_login>>

\* The general error is cleared when the changed input is not blank, the error
\* mentions the input and the other input (as it was rendered) is in order.
handleInputChange(name, value) ==
  /\ login_view.mounted
  /\ LET d == login_view.login_form_data
         general == login_view.form_errors
         cleared ==
           IF name = "email"
           THEN /\ Trim(value) # <<>>
                /\ Includes(general, "Email")
                /\ Trim(d.password) # <<>>
           ELSE /\ Trim(value) # <<>>
                /\ Includes(general, "Password")
                /\ ~(Trim(d.email) = <<>> \/ ~LoginEmailRegexTest(d.email))
     IN  login_view' = [login_view EXCEPT
                          !.login_form_data = [d EXCEPT ![name] = value],
                          !.form_errors = IF cleared THEN <<>> ELSE general,
                          !.ev = "handleInputChange"]
  /\ UNCHANGED <<store_vars, views_but_login>>

\* handle_login up to its await: the inputs are validated and, when they pass, the
\* store's login is called with them.
handle_login ==
  /\ login_view.mounted
  /\ LET d == login_view.login_form_data
         errors == validate_login_input(d)
     IN  IF errors = <<>>
         THEN /\ login_call
              /\ login_view' = [login_view EXCEPT
                                  !.form_errors = errors,
                                  !.is_submitting = TRUE,
                                  !.login_called = Some(d),
                                  !.ev = "handle_login"]
         ELSE /\ login_view' = [login_view EXCEPT
                                  !.form_errors = errors,
                                  !.login_called = Null,
                                  !.ev = "handle_login"]
              /\ UNCHANGED store_vars
  /\ UNCHANGED views_but_login

\* login settles and handle_login runs on: after a success the view redirects to the
\* home page, after a failure it shows the store's auth_error.
handle_login_resume(i, resp) ==
  /\ login_settle(i, resp)
  /\ login_view' =
       IF resp.status = 200
       THEN [login_view EXCEPT !.mounted = FALSE,
                               !.form_errors = <<>>,
                               !.is_submitting = FALSE,
                               !.ev = "handle_login_resume"]
       ELSE [login_view EXCEPT !.form_errors = <<ErrorMessage(resp, "Login failed")>>,
                               !.is_submitting = FALSE,
                               !.ev = "handle_login_resume"]
  /\ UNCHANGED views_but_login

\* The inputs typed into the login form.
LoginEmails ==
  { <<>>,
    <<"a", "b">>,
    <<"a", "@", "b", ".", "c">>,
    <<"S", "@", "S", "\\", ".", "S">> }
LoginPasswords == {<<>>, <<" ">>, <<"p">>}

LoginNext ==
  \/ OpenLogin
  \/ \E value \in LoginEmails : handleInputChange("email", value)
  \/ \E value \in LoginPasswords : handleInputChange("password", value)
  \/ handle_login
  \/ \E i \in Slots, resp \in Responses : handle_login_resume(i, resp)
  \/ \E i \in Slots, resp \in Responses : loadUserProfile_response(i, resp)
  \/ logout

(* ---------------------- registration view (UV_Register) --------------- *)
Letters ==
  {"a", "b", "c", "d", "e", "f", "g", "h", "i", "j", "k", "l", "m", "n", "o", "p", "q",
   "r", "s", "t", "u", "v", "w", "x", "y", "z",
   "A", "B", "C", "D", "E", "F", "G", "H", "I", "J", "K", "L", "M", "N", "O", "P", "Q",
   "R", "S", "T", "U", "V", "W", "X", "Y", "Z"}
IsLetter(c) == c \in Letters

\* EMAIL_REGEX is written with doubled backslashes, each an escaped backslash:
\*   /^[^\u00A0-\\ud800\\udc00\\s@]{1,64}@([a-zA-Z\\d-]+\\.)+[a-zA-Z]{2,}$/
\* Its first class opens with the range \u00A0-\\ (U+00A0 to the backslash, U+005C),
\* whose bounds are out of order.  An
\* engine that follows ECMAScript rejects the literal with a SyntaxError when the
\* module is parsed, and the view never renders; an engine that accepts the literal
\* reads the range as empty.  Both outcomes are admitted (EmailRegexOutcomes).
\*
\* The classes of the accepted literal: the first excludes the backslash and the
\* characters u d 8 0 c s @; the second holds the letters, the backslash, d and -.
LocalPartChar(c) == c \notin {"\\", "u", "d", "8", "0", "c", "s", "@"}
DomainLabelChar(c) == IsLetter(c) \/ c \in {"\\", "d", "-"}

\* [a-zA-Z]{2,}$
TopLevelMatch(text) == Len(text) >= 2 /\ (\A k \in (1)..(Len(text)) : IsLetter(text[k]))

\* ([a-zA-Z\\d-]+\\.)+[a-zA-Z]{2,}$ : each group is a label, a backslash and any
\* character but a line break.
RECURSIVE DomainMatch(_)
DomainMatch(text) ==
  \E n \in 1..Len(text) :
    /\ (\A k \in (1)..(n) : DomainLabelChar(text[k]))
    /\ n + 2 <= Len(text)
    /\ text[n + 1] = "\\"
    /\ text[n + 2] # "\n"
    /\ LET rest == SubSeq(text, n + 3, Len(text))
       IN  TopLevelMatch(rest) \/ DomainMatch(rest)

EMAIL_REGEX_test(text) ==
  \E at \in DOMAIN text :
    /\ text[at] = "@"
    /\ at - 1 >= 1
    /\ at - 1 <= 64
    /\ (\A k \in (1)..(at - 1) : LocalPartChar(text[k]))
    /\ DomainMatch(SubSeq(text, at + 1, Len(text)))

\* /^(?=.*[A-Za-z])(?=.*\d)(?=.*[@$!%*#?&])[A-Za-z\d@$!%*#?&]{8,}$/
PasswordSpecials == {"@", "$", "!", "%", "*", "#", "?", "&"}
PasswordChar(c) == IsLetter(c) \/ IsDigit(c) \/ c \in PasswordSpecials

PASSWORD_REGEX_test(text) ==
  /\ \E k \in DOMAIN text : IsLetter(text[k])
  /\ \E k \in DOMAIN text : IsDigit(text[k])
  /\ \E k \in DOMAIN text : text[k] \in PasswordSpecials
  /\ Len(text) >= 8
  /\ (\A k \in (1)..(Len(text)) : PasswordChar(text[k]))

PasswordRuleMessage ==
  "Password must be at least 8 characters long and contain one letter, one number, and one special character."

\* !v of a string or null
Falsy(v) == IF IsNull(v) THEN TRUE ELSE Val(v) = <<>>

NoRegisterErrors == [username |-> Null, email |-> Null, password |-> Null]

\* new_errors of validate_form; the form is valid when it is NoRegisterErrors.
validate_form(d) ==
  [ username |-> IF Falsy(d.username) THEN Some("Username is required.") ELSE Null,
    email |-> IF Falsy(d.email) THEN Some("Email is required.")
              ELSE IF ~EMAIL_REGEX_test(Val(d.email))
                   THEN Some("Please enter a valid email address.")
                   ELSE Null,
    password |-> IF Falsy(d.password) THEN Some("Password is required.")
                 ELSE IF ~PASSWORD_REGEX_test(Val(d.password))
                      THEN Some(PasswordRuleMessage)
                      ELSE Null ]

\* The error validate_form_field gives a field on input.
validate_form_field(fieldName, value) ==
  CASE fieldName = "email" ->
         IF value # <<>> /\ ~EMAIL_REGEX_test(value)
         THEN Some("Please enter a valid email address.") ELSE Null
    [] fieldName = "password" ->
         IF value # <<>> /\ ~PASSWORD_REGEX_test(value)
         THEN Some(PasswordRuleMessage) ELSE Null
    [] fieldName = "username" ->
         IF value = <<>> THEN Some("Username is required.") ELSE Null

InitialRegistrationFormData ==
  [ username |-> Some(<<>>), email |-> Some(<<>>), password |-> Some(<<>>),
    first_name |-> Null, last_name |-> Null ]

RegisterInit ==
  register_view = [ mounted |-> FALSE,
                    registration_form_data |-> InitialRegistrationFormData,
                    form_errors |-> NoRegisterErrors,
                    is_submitting |-> FALSE,
                    register_called |-> Null,
                    ev |-> "none" ]

EmailRegexOutcomes == {"SyntaxError", "accepted"}

\* The module of the view is loaded and, if that succeeds, the view is mounted; it
\* redirects when somebody is logged in.
OpenRegister(outcome) ==
  /\ ~register_view.mounted
  /\ ~store.is_authenticated
  /\ register_view' =
       IF outcome = "SyntaxError"
       THEN [register_view EXCEPT !.ev = "SyntaxError"]
       ELSE [ mounted |-> TRUE,
              registration_form_data |-> InitialRegistrationFormData,
              form_errors |-> NoRegisterErrors,
              is_submitting |-> FALSE,
              register_called |-> Null,
              ev |-> "OpenRegister" ]
  /\ UNCHANGED <<store_vars, views_but_register>>

\* An empty input is held as null.
handle_input_change(name, value) ==
  /\ register_view.mounted
  /\ register_view' =
       [register_view EXCEPT
          !.registration_form_data[name] = IF value = <<>> THEN Null ELSE Some(value),
          !.form_errors[name] = validate_form_field(name, value),
          !.ev = "handle_input_change"]
  /\ UNCHANGED <<store_vars, views_but_register>>

\* handle_register_submit up to its await.  The submit button is disabled while a
\* submission is under way.
handle_register_submit ==
  /\ register_view.mounted
  /\ ~register_view.is_submitting
  /\ LET d == register_view.registration_form_data
         new_errors == validate_form(d)
     IN  IF new_errors = NoRegisterErrors
         THEN /\ register_call
              /\ register_view' = [register_view EXCEPT
                                     !.form_errors = new_errors,
                                     !.is_submitting = TRUE,
                                     !.register_called = Some(d),
                                     !.ev = "handle_register_submit"]
         ELSE /\ register_view' = [register_view EXCEPT
                                     !.form_errors = new_errors,
                                     !.register_called = Null,
                                     !.ev = "handle_register_submit"]
              /\ UNCHANGED store_vars
  /\ UNCHANGED views_but_register

\* register settles and handle_register_submit runs on: after a success the view
\* navigates to /verify-email, after a failure it stays.
handle_register_submit_resume(i, resp) ==
  /\ register_settle(i, resp)
  /\ register_view' =
       [register_view EXCEPT !.mounted = IF resp.status = 200 THEN FALSE ELSE @,
                             !.is_submitting = FALSE,
                             !.ev = "handle_register_submit_resume"]
  /\ UNCHANGED views_but_register

\* The inputs typed into the registration form.
RegisterUsernames == {<<>>, <<"u">>}
RegisterEmails ==
  { <<>>,
    <<"a", "@", "b", ".", "c", "o">>,
    <<"a", "@", "b", "\\", ".", "c", "o">> }
RegisterPasswords ==
  { <<>>,
    <<"a", "b", "c", "d", "e", "f", "g", "h">>,
    <<"a", "b", "c", "1", "!", "x", "y", "z">> }

RegisterNext ==
  \/ \E outcome \in EmailRegexOutcomes : OpenRegister(outcome)
  \/ \E value \in RegisterUsernames : handle_input_change("username", value)
  \/ \E value \in RegisterEmails : handle_input_change("email", value)
  \/ \E value \in RegisterPasswords : handle_input_change("password", value)
  \/ handle_register_submit
  \/ \E i \in Slots, resp \in Responses : handle_register_submit_resume(i, resp)
  \/ logout


(* ---------------------- browse view (UV_BrowseRecipes) ---------------- *)
\* The query string of /browse: under each key the values appended with it, in
\* order.  sort_by holds words, the other keys hold texts.
NoBrowseParams ==
  [ tags |-> <<>>, difficulty |-> <<>>, max_prep_time |-> <<>>, max_cook_time |-> <<>>,
    min_rating |-> <<>>, sort_by |-> <<>>, page |-> <<>> ]

\* Object.fromEntries(searchParams)[key]: of the values of a key the last one stays;
\* null stands for undefined.
ParamsEntry(searchParams, key) ==
  IF searchParams[key] = <<>> THEN Null
  ELSE Some(searchParams[key][Len(searchParams[key])])

\* null where the state holds an array: a list of one text that no option has.
NullArray == << <<"null">> >>
IsArray(x) == x # NullArray

\* x || [] of an array or null
OrEmpty(x) == IF IsArray(x) THEN x ELSE <<>>

\* The characters of the texts below in the order of their code units, which is the
\* order Array.prototype.sort compares texts by.
CodeUnits ==
  <<" ", ",", ".", "0", "1", "2", "3", "4", "5", "6", "7", "8", "9",
    "E", "K", "M", "N", "Q", "S", "a", "c", "e", "i", "k", "l", "n", "o", "s", "t", "u",
    "y">>
CodeUnit(c) == CHOOSE k \in DOMAIN CodeUnits : CodeUnits[k] = c

RECURSIVE TextBefore(_, _)
TextBefore(a, b) ==
  IF b = <<>> THEN FALSE
  ELSE IF a = <<>> THEN TRUE
  ELSE IF Head(a) = Head(b) THEN TextBefore(Tail(a), Tail(b))
  ELSE CodeUnit(Head(a)) < CodeUnit(Head(b))

\* Array.prototype.sort() of a list of texts.
RECURSIVE sort(_)
sort(list) ==
  IF list = <<>> THEN <<>>
  ELSE LET x == Head(list)
           rest == sort(Tail(list))
       IN  SelectSeq(rest, LAMBDA e : TextBefore(e, x)) \o <<x>>
             \o SelectSeq(rest, LAMBDA e : ~TextBefore(e, x))

\* String(n) of a filter's number; min_rating is held in tenths.
BrowseFilterText(filterName, n) ==
  IF n = NaN THEN <<"N", "a", "N">>
  ELSE IF filterName = "min_rating" THEN StringOfTenths(n)
  ELSE StringOf(n)

\* The state hooks' initial values: a filter the query string lacks is taken from the
\* store's filter_params.
BrowseInitialFilterParams(searchParams, s) ==
  [ tags |-> IF Truthy(ParamsEntry(searchParams, "tags"))
             THEN split(Val(ParamsEntry(searchParams, "tags")), ",")
             ELSE OrEmpty(s.filter_params.tags),
    difficulty |-> IF Truthy(ParamsEntry(searchParams, "difficulty"))
                   THEN split(Val(ParamsEntry(searchParams, "difficulty")), ",")
                   ELSE OrEmpty(s.filter_params.difficulty),
    max_prep_time |-> IF Truthy(ParamsEntry(searchParams, "max_prep_time"))
                      THEN Some(parseInt(Val(ParamsEntry(searchParams, "max_prep_time"))))
                      ELSE s.filter_params.max_prep_time,
    max_cook_time |-> IF Truthy(ParamsEntry(searchParams, "max_cook_time"))
                      THEN Some(parseInt(Val(ParamsEntry(searchParams, "max_cook_time"))))
                      ELSE s.filter_params.max_cook_time,
    min_rating |-> IF Truthy(ParamsEntry(searchParams, "min_rating"))
                   THEN Some(parseFloat(Val(ParamsEntry(searchParams, "min_rating"))))
                   ELSE s.filter_params.min_rating ]

\* urlFilters of the URL sync effect: a key the query string lacks is undefined
\* (null here); a list is wrapped so that an absent one differs from an empty one.
UrlFilters(searchParams) ==
  [ tags |-> IF Truthy(ParamsEntry(searchParams, "tags"))
             THEN Some(split(Val(ParamsEntry(searchParams, "tags")), ","))
             ELSE Null,
    difficulty |-> IF Truthy(ParamsEntry(searchParams, "difficulty"))
                   THEN Some(split(Val(ParamsEntry(searchParams, "difficulty")), ","))
                   ELSE Null,
    max_prep_time |-> IF Truthy(ParamsEntry(searchParams, "max_prep_time"))
                      THEN Some(parseInt(Val(ParamsEntry(searchParams, "max_prep_time"))))
                      ELSE Null,
    max_cook_time |-> IF Truthy(ParamsEntry(searchParams, "max_cook_time"))
                      THEN Some(parseInt(Val(ParamsEntry(searchParams, "max_cook_time"))))
                      ELSE Null,
    min_rating |-> IF Truthy(ParamsEntry(searchParams, "min_rating"))
                   THEN Some(parseFloat(Val(ParamsEntry(searchParams, "min_rating"))))
                   ELSE Null ]

\* params.sort_by || 'newest'
UrlSortOrder(searchParams) ==
  IF IsNull(ParamsEntry(searchParams, "sort_by")) \/ Val(ParamsEntry(searchParams, "sort_by")) = ""
  THEN "newest"
  ELSE Val(ParamsEntry(searchParams, "sort_by"))

\* parseInt(params.page || '1', 10)
UrlPage(searchParams) ==
  IF Truthy(ParamsEntry(searchParams, "page"))
  THEN parseInt(Val(ParamsEntry(searchParams, "page")))
  ELSE 1

\* The effect's comparison of a list filter: urlValue is the wrapped list of the query
\* string or null, localValue the array of the state hook or NullArray.  Two arrays
\* are compared after sort(), which sorts both in place; otherwise a differing URL
\* value (null when absent) replaces the local one.
ListFilterSync(urlValue, localValue) ==
  IF ~IsNull(urlValue) /\ IsArray(localValue)
  THEN IF sort(Val(urlValue)) # sort(localValue)
       THEN [changed |-> TRUE, value |-> sort(Val(urlValue))]
       ELSE [changed |-> FALSE, value |-> sort(localValue)]
  ELSE IF ~IsNull(urlValue) THEN [changed |-> TRUE, value |-> Val(urlValue)]
  ELSE IF IsArray(localValue) THEN [changed |-> TRUE, value |-> NullArray]
  ELSE [changed |-> FALSE, value |-> localValue]

\* The comparison of a number filter: urlValue !== localValue after undefined has
\* become null; NaN differs from NaN.
NumberFilterSync(urlValue, localValue) ==
  [changed |-> urlValue # localValue \/ urlValue = Some(NaN), value |-> urlValue]

\* The store's clearFilters.
clearFilters(s) ==
  [s EXCEPT !.filter_params = DefaultFilterParams, !.sort_order = "newest",
            !.search_query = "", !.current_page = 1]

\* The view's state; dirty says that the last render changed a dependency of the URL
\* sync effect, which then runs before any handler does; filtersObject tells the
\* object that setLocalFilterParams of the effect has made from the one it replaced
\* (the dependency array compares objects by identity); applied holds the filters of
\* the state hook that the last handleApplyFilters wrote to the query string.
BrowseInit ==
  browse = [ mounted |-> FALSE,
             searchParams |-> NoBrowseParams,
             localFilterParams |-> DefaultFilterParams,
             localSortOrder |-> "newest",
             currentPage |-> 1,
             total_pages |-> 0,
             dirty |-> FALSE,
             filtersObject |-> 0,
             applied |-> DefaultFilterParams,
             ev |-> "none" ]

\* The dependency array of the URL sync effect names queryClient above the line that
\* declares it with const: a build that keeps const throws a ReferenceError in every
\* render of the view, a build that turns const into var reads undefined and renders.
BrowseRenderOutcomes == {"ReferenceError", "rendered"}

\* The view is mounted on a query string.
OpenBrowse(url, outcome) ==
  /\ ~browse.mounted
  /\ browse' =
       IF outcome = "ReferenceError"
       THEN [browse EXCEPT !.ev = "ReferenceError"]
       ELSE [ mounted |-> TRUE,
              searchParams |-> url,
              localFilterParams |-> BrowseInitialFilterParams(url, store),
              localSortOrder |->
                IF url.sort_by # <<>> /\ url.sort_by[1] # "" THEN url.sort_by[1]
                ELSE IF store.sort_order # "" THEN store.sort_order
                ELSE "newest",
              currentPage |-> IF url.page # <<>> /\ url.page[1] # <<>>
                              THEN parseInt(url.page[1]) ELSE 1,
              total_pages |-> 0,
              dirty |-> TRUE,
              filtersObject |-> 0,
              applied |-> DefaultFilterParams,
              ev |-> "OpenBrowse" ]
  /\ UNCHANGED <<store_vars, views_but_browse>>

\* One run of the URL sync effect.  It runs again when it has changed the state hooks
\* or the store's filter_params or sort_order.
URLSyncEffect_run ==
  /\ browse.mounted
  /\ browse.dirty
  /\ LET urlSortOrder == UrlSortOrder(browse.searchParams)
         urlPage == UrlPage(browse.searchParams)
         urlFilters == UrlFilters(browse.searchParams)
         local == browse.localFilterParams
         sync == [ tags |-> ListFilterSync(urlFilters.tags, local.tags),
                   difficulty |-> ListFilterSync(urlFilters.difficulty, local.difficulty),
                   max_prep_time |-> NumberFilterSync(urlFilters.max_prep_time,
                                                      local.max_prep_time),
                   max_cook_time |-> NumberFilterSync(urlFilters.max_cook_time,
                                                      local.max_cook_time),
                   min_rating |-> NumberFilterSync(urlFilters.min_rating,
                                                   local.min_rating) ]
         updatedKeys == {key \in DOMAIN sync : sync[key].changed}
         updatedFilters == [key \in updatedKeys |-> sync[key].value]
         sortChanged == urlSortOrder # browse.localSortOrder
         pageChanged == urlPage # browse.currentPage \/ urlPage = NaN
         s1 == IF sortChanged THEN setSortOrder(store, urlSortOrder) ELSE store
         s2 == IF pageChanged THEN setPage(s1, urlPage) ELSE s1
         s3 == IF updatedKeys # {} THEN setFilters(s2, updatedFilters) ELSE s2
     IN  /\ browse' = [browse EXCEPT
                         !.localFilterParams = [key \in DOMAIN sync |-> sync[key].value],
                         !.localSortOrder = urlSortOrder,
                         !.currentPage = urlPage,
                         !.dirty = \/ sortChanged
                                   \/ urlPage # browse.currentPage
                                   \/ updatedKeys # {},
                         !.filtersObject = IF updatedKeys # {} THEN 1 - @ ELSE @,
                         !.ev = "URLSyncEffect"]
         /\ store' = s3
  /\ UNCHANGED <<axios_auth, inflight, srv_ratings, store_ev, views_but_browse>>

\* A handler runs on a mounted view whose effects have run.
BrowseReady == browse.mounted /\ ~browse.dirty

\* The recipes query answers with the number of pages.
recipesQuery_onSuccess(total_pages) ==
  /\ BrowseReady
  /\ browse' = [browse EXCEPT !.total_pages = total_pages, !.ev = "recipesQuery_onSuccess"]
  /\ UNCHANGED <<store_vars, views_but_browse>>

handleTagFilterToggle(tag) ==
  /\ BrowseReady
  /\ browse' = [browse EXCEPT
                  !.localFilterParams.tags = Toggled(OrEmpty(@), tag),
                  !.dirty = TRUE,
                  !.ev = "handleTagFilterToggle"]
  /\ UNCHANGED <<store_vars, views_but_browse>>

handleDifficultyFilterFilterToggle(difficulty) ==
  /\ BrowseReady
  /\ browse' = [browse EXCEPT
                  !.localFilterParams.difficulty = Toggled(OrEmpty(@), difficulty),
                  !.dirty = TRUE,
                  !.ev = "handleDifficultyFilterFilterToggle"]
  /\ UNCHANGED <<store_vars, views_but_browse>>

\* handleFilterChange of the browse view for the select inputs: value === '' ? null :
\* parseInt(value, 10), or parseFloat for min_rating.
browse_handleFilterChange(filterName, value) ==
  /\ BrowseReady
  /\ browse' = [browse EXCEPT
                  !.localFilterParams[filterName] =
                     IF filterName = "min_rating" THEN SelectedFloat(value)
                     ELSE SelectedInt(value),
                  !.dirty = TRUE,
                  !.ev = "handleFilterChange"]
  /\ UNCHANGED <<store_vars, views_but_browse>>

\* The query string handleApplyFilters builds: one append per tag and per difficulty
\* level, and one for each number that is not null.
AppliedSearchParams(filters, sortOrder) ==
  [ tags |-> OrEmpty(filters.tags),
    difficulty |-> OrEmpty(filters.difficulty),
    max_prep_time |-> IF IsNull(filters.max_prep_time) THEN <<>>
                      ELSE <<BrowseFilterText("max_prep_time", Val(filters.max_prep_time))>>,
    max_cook_time |-> IF IsNull(filters.max_cook_time) THEN <<>>
                      ELSE <<BrowseFilterText("max_cook_time", Val(filters.max_cook_time))>>,
    min_rating |-> IF IsNull(filters.min_rating) THEN <<>>
                   ELSE <<BrowseFilterText("min_rating", Val(filters.min_rating))>>,
    sort_by |-> IF sortOrder # "newest" THEN <<sortOrder>> ELSE <<>>,
    page |-> << <<"1">> >> ]

handleApplyFilters ==
  /\ BrowseReady
  /\ store' = setSortOrder(setFilters(store, browse.localFilterParams),
                           browse.localSortOrder)
  /\ browse' = [browse EXCEPT
                  !.currentPage = 1,
                  !.searchParams = AppliedSearchParams(browse.localFilterParams,
                                                       browse.localSortOrder),
                  !.applied = browse.localFilterParams,
                  !.dirty = TRUE,
                  !.ev = "handleApplyFilters"]
  /\ UNCHANGED <<axios_auth, inflight, srv_ratings, store_ev, views_but_browse>>

browse_handleClearFilters ==
  /\ BrowseReady
  /\ store' = clearFilters(store)
  /\ browse' = [browse EXCEPT
                  !.localFilterParams = DefaultFilterParams,
                  !.localSortOrder = "newest",
                  !.currentPage = 1,
                  !.searchParams = [NoBrowseParams EXCEPT !.page = << <<"1">> >>],
                  !.dirty = TRUE,
                  !.ev = "handleClearFilters"]
  /\ UNCHANGED <<axios_auth, inflight, srv_ratings, store_ev, views_but_browse>>

browse_handleSortChange(newSortOrder) ==
  /\ BrowseReady
  /\ store' = setSortOrder(store, newSortOrder)
  /\ browse' = [browse EXCEPT
                  !.localSortOrder = newSortOrder,
                  !.currentPage = 1,
                  !.searchParams =
                     [@ EXCEPT !.sort_by = IF newSortOrder # "newest"
                                           THEN <<newSortOrder>> ELSE <<>>,
                               !.page = << <<"1">> >>],
                  !.dirty = TRUE,
                  !.ev = "handleSortChange"]
  /\ UNCHANGED <<axios_auth, inflight, srv_ratings, store_ev, views_but_browse>>

\* The Previous and Next buttons call it with currentPage - 1 and currentPage + 1.
browse_handlePageChange(page) ==
  /\ BrowseReady
  /\ IF page >= 1 /\ page <= browse.total_pages
     THEN /\ store' = setPage(store, page)
          /\ browse' = [browse EXCEPT
                          !.currentPage = page,
                          !.searchParams = [@ EXCEPT !.page = <<StringOf(page)>>],
                          !.dirty = TRUE,
                          !.ev = "handlePageChange"]
     ELSE /\ browse' = [browse EXCEPT !.ev = "handlePageChange"]
          /\ UNCHANGED store
  /\ UNCHANGED <<axios_auth, inflight, srv_ratings, store_ev, views_but_browse>>

\* The query strings the view is entered with.
BrowseEntryUrls ==
  { NoBrowseParams,
    [NoBrowseParams EXCEPT
       !.tags = <<join(<<<<"K", "e", "t", "o", " ", "S", "n", "a", "c", "k", "s">>,
                         <<"Q", "u", "i", "c", "k", " ", "M", "e", "a", "l", "s">>>>, ",")>>,
       !.page = << <<"1">> >>],
    [NoBrowseParams EXCEPT
       !.tags = << <<"Q", "u", "i", "c", "k", " ", "M", "e", "a", "l", "s">> >>,
       !.min_rating = << <<"4", ".", "5">> >>,
       !.sort_by = <<"rating">>],
    [NoBrowseParams EXCEPT !.page = << <<"t", "w", "o">> >>],
    [NoBrowseParams EXCEPT !.max_prep_time = << <<"s", "o", "o", "n">> >>] }

BrowseNext ==
  \/ \E url \in BrowseEntryUrls, outcome \in BrowseRenderOutcomes : OpenBrowse(url, outcome)
  \/ URLSyncEffect_run
  \/ \E total_pages \in TotalPages : recipesQuery_onSuccess(total_pages)
  \/ \E tag \in TagOptions : handleTagFilterToggle(tag)
  \/ \E difficulty \in DifficultyOptions : handleDifficultyFilterFilterToggle(difficulty)
  \/ \E value \in PrepTimeOptions : browse_handleFilterChange("max_prep_time", value)
  \/ \E value \in CookTimeOptions : browse_handleFilterChange("max_cook_time", value)
  \/ \E value \in RatingOptions : browse_handleFilterChange("min_rating", value)
  \/ handleApplyFilters
  \/ browse_handleClearFilters
  \/ \E newSortOrder \in SortOptions : browse_handleSortChange(newSortOrder)
  \/ \E page \in {browse.currentPage - 1, browse.currentPage + 1} :
        browse_handlePageChange(page)

(* -------------------------- recipe view (UV_RecipeView) --------------- *)
\* localState of the view, with what its handlers last did: rating_sent is the rating
\* the running rating mutation handed to the store's submitRating (null when none is
\* running or it handed none); is_saving is the argument of the running save/unsave
\* mutation.  savedRecipesList is the data of the query ['user', 'savedRecipes'], which
\* is what the store's fetchSavedRecipes resolved to: true or false (null for
\* undefined, before the first answer); the query's cache outlives the view.
\* savedRecipesStale says that the query was invalidated and is to fetch again.
\* crashed says that an effect has thrown and React has unmounted the tree.
RecipeViewInit ==
  recipe_view = [ mounted |-> FALSE,
                  crashed |-> FALSE,
                  recipe_id |-> 0,
                  recipe_details |-> Null,
                  user_rating |-> Null,
                  is_recipe_saved |-> FALSE,
                  savedRecipesList |-> Null,
                  savedRecipesStale |-> FALSE,
                  is_saving |-> Null,
                  is_updating_rating |-> FALSE,
                  rating_sent |-> Null,
                  ev |-> "none" ]

\* What the user-rating query yields: null without a session, else the answer of
\* GET /recipes/:id/ratings/me, the user's rating of the recipe if the server has one
\* (srv_ratings keeps no values; a stored rating reads as 4).
UserRatingData(r) ==
  IF store.is_authenticated /\ <<TokenUser(store.access_token), r>> \in srv_ratings
  THEN Some(4)
  ELSE Null

\* The view is mounted on /recipes/:recipe_id and its recipe query calls the store's
\* fetchRecipeById.
OpenRecipe(r) ==
  /\ ~recipe_view.crashed
  /\ fetchRecipeById_call(r)
  /\ recipe_view' = [ mounted |-> TRUE,
                      crashed |-> FALSE,
                      recipe_id |-> r,
                      recipe_details |-> Null,
                      user_rating |-> Null,
                      is_recipe_saved |-> FALSE,
                      savedRecipesList |-> recipe_view.savedRecipesList,
                      savedRecipesStale |-> recipe_view.savedRecipesStale,
                      is_saving |-> Null,
                      is_updating_rating |-> FALSE,
                      rating_sent |-> Null,
                      ev |-> "OpenRecipe" ]
  /\ UNCHANGED views_but_recipe

\* savedRecipesList?.some(...) ?? false of the state effect: undefined gives false;
\* true and false are not nullish and have no method some, so the call throws
\* 'savedRecipesList?.some is not a function'.
IsSavedThrows(savedRecipesList) == ~IsNull(savedRecipesList)

\* The view after an effect has thrown.
TypeError(v) == [v EXCEPT !.mounted = FALSE, !.crashed = TRUE, !.ev = "TypeError"]

\* The saved-recipes query is enabled by is_authenticated; it fetches when it has no
\* data or was invalidated, unless it is fetching already.
SavedQueryFetching == \E k \in 1..Len(inflight) : inflight[k].op = "fetchSavedRecipes"

SavedQueryDue ==
  /\ recipe_view.mounted
  /\ store.is_authenticated
  /\ IsNull(recipe_view.savedRecipesList) \/ recipe_view.savedRecipesStale
  /\ ~SavedQueryFetching

\* The query function calls the store's fetchSavedRecipes, which resolves to false at
\* once without an access token; the state effect then runs on the new data.
savedRecipesQuery_fetch ==
  /\ SavedQueryDue
  /\ fetchSavedRecipes_call
  /\ recipe_view' =
       IF store.access_token # NoToken
       THEN [recipe_view EXCEPT !.savedRecipesStale = FALSE,
                                !.ev = "savedRecipesQuery_fetch"]
       ELSE IF ~IsNull(recipe_view.recipe_details)
       THEN TypeError([recipe_view EXCEPT !.savedRecipesList = Some(FALSE),
                                          !.savedRecipesStale = FALSE])
       ELSE [recipe_view EXCEPT !.savedRecipesList = Some(FALSE),
                                !.savedRecipesStale = FALSE,
                                !.ev = "savedRecipesQuery_fetch"]
  /\ UNCHANGED views_but_recipe

\* fetchSavedRecipes settles, its result becomes the query's data and the state
\* effect runs if a recipe was fetched.
savedRecipesQuery_settle(i, resp) ==
  /\ recipe_view.mounted
  /\ fetchSavedRecipes_settle(i, resp)
  /\ recipe_view' =
       IF ~IsNull(recipe_view.recipe_details)
       THEN TypeError([recipe_view EXCEPT !.savedRecipesList = Some(resp.status = 200)])
       ELSE [recipe_view EXCEPT !.savedRecipesList = Some(resp.status = 200),
                                !.ev = "savedRecipesQuery_settle"]
  /\ UNCHANGED views_but_recipe

\* The recipe query settles and the effect on [fetchedRecipeDetails, userRatingData,
\* ...] copies a fetched recipe and the user's rating into localState; fetchRecipeById
\* resolves to null after a failure and the effect then leaves localState alone.
recipeQuery_settle(i, resp) ==
  /\ recipe_view.mounted
  /\ fetchRecipeById_settle(i, resp)
  /\ recipe_view' =
       IF ~IsNull(store'.current_recipe_details)
       THEN IF IsSavedThrows(recipe_view.savedRecipesList)
            THEN TypeError(recipe_view)
            ELSE [recipe_view EXCEPT !.recipe_details = store'.current_recipe_details,
                                     !.user_rating = UserRatingData(recipe_view.recipe_id),
                                     !.is_recipe_saved = FALSE,
                                     !.ev = "recipeQuery_settle"]
       ELSE [recipe_view EXCEPT !.ev = "recipeQuery_settle"]
  /\ UNCHANGED views_but_recipe

\* The save button and the rating stars are rendered inside {is_authenticated && ...}
\* of a loaded recipe; a star is a button unless a rating is being sent.
RatingStarsShown ==
  /\ recipe_view.mounted
  /\ ~IsNull(recipe_view.recipe_details)
  /\ store.is_authenticated
  /\ ~recipe_view.is_updating_rating

StarValues == {1, 2, 3, 4, 5}

RatingOutOfRange_above_only(rating) == rating > 5

\* rating < 1 || rating > 5
RatingOutOfRange(rating) == rating < 1 \/ rating > 5

\* rateMutation's mutationFn up to its await.  The store's submitRating resolves to
\* false at once without an access token, and the mutation then reports the failure.
rateMutation_mutate(rating) ==
  /\ recipe_view.mounted
  /\ IF ~store.is_authenticated
     THEN /\ store' = showNotification(store, "Please log in to rate recipes.", "info")
          /\ recipe_view' = [recipe_view EXCEPT !.rating_sent = Null,
                                                !.ev = "rateMutation_mutate"]
          /\ UNCHANGED <<axios_auth, inflight, srv_ratings, store_ev>>
     ELSE IF RatingOutOfRange(rating)
     THEN /\ store' = showNotification(store, "Rating must be between 1 and 5.", "error")
          /\ recipe_view' = [recipe_view EXCEPT !.rating_sent = Null,
                                                !.ev = "rateMutation_mutate"]
          /\ UNCHANGED <<axios_auth, inflight, srv_ratings, store_ev>>
     ELSE IF store.access_token = NoToken
     THEN /\ store' = showNotification(store, "Failed to submit rating.", "error")
          /\ store_ev' = [Ev("submitRating", "start", recipe_view.recipe_id, NoToken)
                            EXCEPT !.ret = "false"]
          /\ recipe_view' = [recipe_view EXCEPT !.rating_sent = Null,
                                                !.is_updating_rating = FALSE,
                                                !.ev = "rateMutation_mutate"]
          /\ UNCHANGED <<axios_auth, inflight, srv_ratings>>
     ELSE /\ AuthSend_call("submitRating", recipe_view.recipe_id, "false")
          /\ recipe_view' = [recipe_view EXCEPT !.rating_sent = Some(rating),
                                                !.is_updating_rating = TRUE,
                                                !.ev = "rateMutation_mutate"]
  /\ UNCHANGED views_but_recipe

\* onClick of a star: rateMutation.mutate({ rating: starValue }).
handleStarClick(starValue) ==
  /\ RatingStarsShown
  /\ rateMutation_mutate(starValue)

\* submitRating settles and the mutation runs on.  After a success user_rating is the
\* rating sent (refetchUserRating reads the same rating back); after a failure the
\* mutation's own notification replaces the one the store has just shown.
rateMutation_resume(i, resp) ==
  /\ recipe_view.mounted
  /\ ~IsNull(recipe_view.rating_sent)
  /\ IF resp.status = 200
     THEN /\ submitRating_settle(i, resp)
          /\ recipe_view' = [recipe_view EXCEPT !.user_rating = recipe_view.rating_sent,
                                                !.rating_sent = Null,
                                                !.is_updating_rating = FALSE,
                                                !.ev = "rateMutation_resume"]
     ELSE /\ Pending(i, "submitRating")
          /\ store' = showNotification(store, "Failed to submit rating.", "error")
          /\ store_ev' = EvDone(inflight[i], resp, "false")
          /\ inflight' = RemoveAt(inflight, i)
          /\ recipe_view' = [recipe_view EXCEPT !.rating_sent = Null,
                                                !.is_updating_rating = FALSE,
                                                !.ev = "rateMutation_resume"]
          /\ UNCHANGED <<axios_auth, srv_ratings>>
  /\ UNCHANGED views_but_recipe

\* The comments the view displays.
DisplayedComments ==
  IF recipe_view.mounted /\ ~IsNull(recipe_view.recipe_details)
  THEN {Val(recipe_view.recipe_details).comments[k] :
          k \in 1..Len(Val(recipe_view.recipe_details).comments)}
  ELSE {}

CommentDeleteButtonShown_for_any_comment(c) == store.is_authenticated

\* is_authenticated && user_profile_summary?.user_id === comment.user.user_id
CommentDeleteButtonShown(c) ==
  /\ store.is_authenticated
  /\ ~IsNull(store.user_profile_summary)
  /\ Val(store.user_profile_summary).user_id = CommentAuthor(c)

\* onClick of a comment's Delete button and deleteCommentMutation's mutationFn up to
\* its await; confirmed is the answer to window.confirm.
deleteCommentMutation_mutate(c, confirmed) ==
  /\ c \in DisplayedComments
  /\ CommentDeleteButtonShown(c)
  /\ IF ~store.is_authenticated
     THEN /\ store' = showNotification(store, "You must be logged in to delete comments.",
                                       "info")
          /\ UNCHANGED <<axios_auth, inflight, srv_ratings, store_ev>>
     ELSE IF ~confirmed
     THEN UNCHANGED store_vars
     ELSE AuthSend_call("deleteComment", c, "false")
  /\ recipe_view' = [recipe_view EXCEPT !.ev = "deleteCommentMutation_mutate"]
  /\ UNCHANGED views_but_recipe

\* deleteComment settles.  The mutation invalidates ['recipe', recipeIdNum], a key
\* with the number where the recipe query's key ['recipe', recipe_id] has the route's
\* string, so the recipe query is not refetched and localState keeps its comments.
deleteCommentMutation_resume(i, resp) ==
  /\ recipe_view.mounted
  /\ deleteComment_settle(i, resp)
  /\ recipe_view' = [recipe_view EXCEPT !.ev = "deleteCommentMutation_resume"]
  /\ UNCHANGED views_but_recipe

\* onClick of the save button, which is rendered for a logged-in user on a loaded
\* recipe and disabled while the mutation is pending:
\* saveUnsaveMutation.mutate({ recipe_id, is_saving: !is_recipe_saved }), up to the
\* await of the store's saveRecipe or unsaveRecipe.
saveUnsaveMutation_mutate ==
  /\ recipe_view.mounted
  /\ ~IsNull(recipe_view.recipe_details)
  /\ store.is_authenticated
  /\ IsNull(recipe_view.is_saving)
  /\ LET is_saving == ~recipe_view.is_recipe_saved
         op == IF is_saving THEN "saveRecipe" ELSE "unsaveRecipe"
     IN  IF store.access_token = NoToken
         THEN /\ store' = showNotification(store,
                             IF is_saving THEN "Failed to save recipe."
                             ELSE "Failed to unsave recipe.", "error")
              /\ store_ev' = [Ev(op, "start", recipe_view.recipe_id, NoToken)
                                EXCEPT !.ret = "false"]
              /\ recipe_view' = [recipe_view EXCEPT !.ev = "saveUnsaveMutation_mutate"]
              /\ UNCHANGED <<axios_auth, inflight, srv_ratings>>
         ELSE /\ AuthSend_call(op, recipe_view.recipe_id, "false")
              /\ recipe_view' = [recipe_view EXCEPT !.is_saving = Some(is_saving),
                                                    !.ev = "saveUnsaveMutation_mutate"]
  /\ UNCHANGED views_but_recipe

\* saveRecipe or unsaveRecipe settles and the mutation runs on: after a success it
\* sets is_recipe_saved and invalidates the saved-recipes query; after a failure its
\* own notification replaces the one the store has just shown.
saveUnsaveMutation_resume(i, resp) ==
  /\ recipe_view.mounted
  /\ ~IsNull(recipe_view.is_saving)
  /\ IF Val(recipe_view.is_saving)
     THEN saveRecipe_settle(i, resp)
     ELSE unsaveRecipe_settle(i, resp)
  /\ IF store_ev'.ret = "true"
     THEN recipe_view' = [recipe_view EXCEPT
                            !.is_recipe_saved = Val(recipe_view.is_saving),
                            !.savedRecipesStale = TRUE,
                            !.is_saving = Null,
                            !.ev = "saveUnsaveMutation_resume"]
     ELSE recipe_view' = [recipe_view EXCEPT !.is_saving = Null,
                                            !.ev = "saveUnsaveMutation_resume"]
  /\ UNCHANGED views_but_recipe

\* The numbers the rating mutation is applied to besides the stars' values.
RatingInputs == {0, 6}

\* The responses the server gives while the recipe view is open.
RecipeViewResponses ==
  {resp \in Responses : resp.message = "" /\ resp.body_error = "" /\ resp.status # 0}

\* A handler of the view runs when the saved-recipes query has started whatever
\* fetch was due and no request but that query's is in flight.  Once the tree is
\* unmounted nothing is left to click, while the store's actions in flight run on.
RecipeViewIdle ==
  /\ ~SavedQueryDue
  /\ \A k \in 1..Len(inflight) : inflight[k].op = "fetchSavedRecipes"

RecipeViewNext ==
  \/ \E r \in RecipeIds : inflight = <<>> /\ OpenRecipe(r)
  \/ \E i \in Slots, resp \in RecipeViewResponses : recipeQuery_settle(i, resp)
  \/ savedRecipesQuery_fetch
  \/ \E i \in Slots, resp \in RecipeViewResponses : savedRecipesQuery_settle(i, resp)
  \/ \E starValue \in StarValues : RecipeViewIdle /\ handleStarClick(starValue)
  \/ \E rating \in RatingInputs : RecipeViewIdle /\ rateMutation_mutate(rating)
  \/ \E i \in Slots, resp \in RecipeViewResponses : rateMutation_resume(i, resp)
  \/ \E c \in CommentIds, confirmed \in BOOLEAN :
        RecipeViewIdle /\ deleteCommentMutation_mutate(c, confirmed)
  \/ \E i \in Slots, resp \in RecipeViewResponses : deleteCommentMutation_resume(i, resp)
  \/ RecipeViewIdle /\ saveUnsaveMutation_mutate
  \/ \E i \in Slots, resp \in RecipeViewResponses : saveUnsaveMutation_resume(i, resp)
  \/ inflight = <<>> /\ ~recipe_view.crashed /\ login
  \/ \E i \in Slots, resp \in RecipeViewResponses : login_response(i, resp)
  \/ \E i \in Slots, resp \in RecipeViewResponses : loadUserProfile_response(i, resp)
  \/ ~recipe_view.crashed /\ logout
  \/ \E i \in Slots, resp \in RecipeViewResponses :
        /\ recipe_view.crashed
        /\ \/ fetchSavedRecipes_response(i, resp)
           \/ submitRating_response(i, resp)
           \/ deleteComment_response(i, resp)
           \/ saveRecipe_response(i, resp)
           \/ unsaveRecipe_response(i, resp)

(* ------------------ profile edit view (UV_UserProfileEdit) ------------- *)
\* What GET /users/me reports of a user besides the fields of Profile: the username,
\* and the names, which the user has not set.
ServerUsername == <<"c", "h", "e", "f">>
ServerFirstName == Null
ServerLastName == Null

\* The state hooks of the view; a name is null or a text; form_errors holds the
\* messages under their keys; request is the body of the last PUT /users/me request
\* that profileUpdateMutation has sent, with its Authorization header.
InitialProfileData ==
  [ username |-> <<>>, first_name |-> Null, last_name |-> Null,
    current_password |-> <<>>, new_password |-> <<>> ]

ProfileEditInit ==
  profile_edit = [ mounted |-> FALSE,
                   profile_data |-> InitialProfileData,
                   form_errors |-> {},
                   is_saving |-> FALSE,
                   password_section_visible |-> FALSE,
                   has_password_changed |-> FALSE,
                   request |-> Null,
                   ev |-> "none" ]

\* The effect on [current_user_profile, profile_fetch_error, ...]: a profile in the
\* store fills the form and empties the password fields.
PopulatedProfileData(data, s) ==
  IF IsNull(s.current_user_profile) THEN data
  ELSE [ username |-> ServerUsername, first_name |-> ServerFirstName,
         last_name |-> ServerLastName, current_password |-> <<>>, new_password |-> <<>> ]

\* The view is mounted by a user with a session; its profile query calls the store's
\* loadUserProfile.
OpenProfileEdit ==
  /\ ~profile_edit.mounted
  /\ store.access_token # NoToken
  /\ AuthSend_call("loadUserProfile", 0, "undefined")
  /\ profile_edit' = [ mounted |-> TRUE,
                       profile_data |-> PopulatedProfileData(InitialProfileData, store),
                       form_errors |-> {},
                       is_saving |-> FALSE,
                       password_section_visible |-> FALSE,
                       has_password_changed |-> FALSE,
                       request |-> Null,
                       ev |-> "OpenProfileEdit" ]
  /\ UNCHANGED views_but_profile

\* loadUserProfile settles while the view is mounted.  With a profile in the store
\* the effect fills the form; with none the query has thrown 'Failed to load user
\* profile from store.' and the effect shows a notification, logs out and leaves for
\* /login.
profileQuery_settle(i, resp) ==
  /\ profile_edit.mounted
  /\ Pending(i, "loadUserProfile")
  /\ LET s1 == IF resp.status = 200
               THEN [store EXCEPT
                       !.current_user_profile = Some(Profile(TokenUser(inflight[i].tok))),
                       !.user_profile_summary = Some(Profile(TokenUser(inflight[i].tok)))]
               ELSE IF resp.status = 401 THEN Logout(store) ELSE store
     IN  IF ~IsNull(s1.current_user_profile)
         THEN /\ store' = s1
              /\ profile_edit' =
                   [profile_edit EXCEPT
                      !.profile_data = PopulatedProfileData(@, s1),
                      !.ev = "profileQuery_settle"]
         ELSE /\ store' = Logout(showNotification(s1,
                    "Session expired or authentication failed. Please log in again.",
                    "error"))
              /\ profile_edit' = [profile_edit EXCEPT !.mounted = FALSE,
                                                      !.ev = "profileQuery_settle"]
  /\ inflight' = RemoveAt(inflight, i)
  /\ store_ev' = EvDone(inflight[i], resp, "undefined")
  /\ UNCHANGED <<axios_auth, srv_ratings, views_but_profile>>

\* The view is ready for its handlers: mounted and not saving.
ProfileEditReady == profile_edit.mounted /\ ~profile_edit.is_saving

\* onChange of an input: the field takes the value and loses its error.
profile_handleInputChange(name, value) ==
  /\ ProfileEditReady
  /\ profile_edit' =
       [profile_edit EXCEPT
          !.profile_data[name] = IF name \in {"first_name", "last_name"}
                                 THEN Some(value) ELSE value,
          !.form_errors = {e \in @ : e[1] # name},
          !.ev = "handleInputChange"]
  /\ UNCHANGED <<store_vars, views_but_profile>>

\* The Change Password button shows or hides the password section; either way the
\* password fields are emptied and their errors and the general one removed.
togglePasswordSection ==
  /\ ProfileEditReady
  /\ profile_edit' =
       [profile_edit EXCEPT
          !.password_section_visible = ~@,
          !.has_password_changed = IF profile_edit.password_section_visible
                                   THEN @ ELSE FALSE,
          !.profile_data.current_password = <<>>,
          !.profile_data.new_password = <<>>,
          !.form_errors = {e \in @ : e[1] \notin {"current_password", "new_password",
                                                  "general"}},
          !.ev = "togglePasswordSection"]
  /\ UNCHANGED <<store_vars, views_but_profile>>

UsernameError(username) ==
  IF username = <<>> THEN {<<"username", "Username is required.">>}
  ELSE IF Len(username) < 3
  THEN {<<"username", "Username must be at least 3 characters long.">>}
  ELSE {}

CurrentPasswordError(current_password) ==
  IF current_password = <<>>
  THEN {<<"current_password", "Current password is required to change password.">>}
  ELSE {}

\* errors.new_password of handleSaveProfileDetails: the last assignment made stays,
\* and the last one is 'Passwords do not match.' whenever both passwords are given
\* and differ.
NewPasswordError(current_password, new_password) ==
  IF current_password # <<>> /\ new_password # <<>> /\ current_password # new_password
  THEN {<<"new_password", "Passwords do not match.">>}
  ELSE IF new_password = <<>> THEN {<<"new_password", "New password is required.">>}
  ELSE IF Len(new_password) < 8
  THEN {<<"new_password", "New password must be at least 8 characters long.">>}
  ELSE IF new_password = current_password
  THEN {<<"new_password", "New password cannot be the same as the current password.">>}
  ELSE {}

\* current_password || new_password, with the password section shown.
AttemptingPasswordChange(v) ==
  /\ v.password_section_visible
  /\ (v.profile_data.current_password # <<>> \/ v.profile_data.new_password # <<>>)

ProfileFormErrors(v) ==
  UsernameError(v.profile_data.username)
    \cup (IF AttemptingPasswordChange(v)
          THEN CurrentPasswordError(v.profile_data.current_password)
                 \cup NewPasswordError(v.profile_data.current_password,
                                       v.profile_data.new_password)
          ELSE {})

\* hasDetailsChanged: the form's username and names against the store's profile.
HasDetailsChanged(data, s) ==
  IF IsNull(s.current_user_profile)
  THEN data.username # <<>> \/ ~IsNull(data.first_name) \/ ~IsNull(data.last_name)
  ELSE \/ data.username # ServerUsername
       \/ data.first_name # ServerFirstName
       \/ data.last_name # ServerLastName

\* The body that mutationFn of profileUpdateMutation puts together from the data it
\* was handed: the passwords go in when the section is shown and both are given.
ProfileUpdatePayload(dataToUpdate, password_section_visible) ==
  [ username |-> dataToUpdate.username,
    first_name |-> dataToUpdate.first_name,
    last_name |-> dataToUpdate.last_name,
    passwords |->
      IF /\ password_section_visible
         /\ dataToUpdate.current_password # <<>>
         /\ dataToUpdate.new_password # <<>>
      THEN Some([current_password |-> dataToUpdate.current_password,
                 new_password |-> dataToUpdate.new_password])
      ELSE Null ]

\* handleSaveProfileDetails with what profileUpdateMutation.mutate does up to its
\* request: onMutate, then mutationFn.
handleSaveProfileDetails ==
  /\ ProfileEditReady
  /\ LET errors == ProfileFormErrors(profile_edit)
         attempting == AttemptingPasswordChange(profile_edit)
         data == profile_edit.profile_data
         dataToUpdate == IF attempting THEN data
                         ELSE [data EXCEPT !.current_password = <<>>,
                                           !.new_password = <<>>]
     IN  IF errors # {}
         THEN /\ profile_edit' = [profile_edit EXCEPT !.form_errors = errors,
                                                      !.ev = "handleSaveProfileDetails"]
              /\ UNCHANGED store
         ELSE IF attempting \/ HasDetailsChanged(data, store)
         THEN /\ profile_edit' =
                   [profile_edit EXCEPT
                      !.form_errors = {},
                      !.is_saving = TRUE,
                      !.has_password_changed = @ \/ attempting,
                      !.request = Some(
                         [ body |-> ProfileUpdatePayload(dataToUpdate,
                                       profile_edit.password_section_visible),
                           auth |-> Bearer(store.access_token) ]),
                      !.ev = "handleSaveProfileDetails"]
              /\ UNCHANGED store
         ELSE /\ profile_edit' = [profile_edit EXCEPT !.form_errors = {},
                                                      !.ev = "handleSaveProfileDetails"]
              /\ store' = showNotification(store, "No changes to save.", "info")
  /\ UNCHANGED <<axios_auth, inflight, srv_ratings, store_ev, views_but_profile>>

\* onSuccess of profileUpdateMutation; invalidateQueries makes the profile query call
\* loadUserProfile again.
profileUpdateMutation_onSuccess(resp) ==
  /\ profile_edit.mounted
  /\ profile_edit.is_saving
  /\ Len(inflight) < Cardinality(Slots)
  /\ store' = showNotification(store, OkMessage(resp, "Profile updated successfully"),
                               "success")
  /\ IF store.access_token = NoToken
     THEN /\ store_ev' = [Ev("loadUserProfile", "start", 0, NoToken)
                            EXCEPT !.ret = "undefined"]
          /\ UNCHANGED <<axios_auth, inflight>>
     ELSE /\ axios_auth' = Bearer(store.access_token)
          /\ inflight' = Append(inflight, Req("loadUserProfile", 0, axios_auth'))
          /\ store_ev' = Ev("loadUserProfile", "start", 0, store.access_token)
  /\ profile_edit' =
       [profile_edit EXCEPT
          !.is_saving = FALSE,
          !.has_password_changed = FALSE,
          !.password_section_visible = FALSE,
          !.profile_data = [@ EXCEPT !.current_password = <<>>, !.new_password = <<>>],
          !.ev = "profileUpdateMutation_onSuccess"]
  /\ UNCHANGED <<srv_ratings, views_but_profile>>

\* onError of profileUpdateMutation for an error whose body's error is a text.
profileUpdateMutation_onError(resp) ==
  /\ profile_edit.mounted
  /\ profile_edit.is_saving
  /\ store' = showNotification(store, ErrorMessage(resp, "An error occurred"), "error")
  /\ profile_edit' =
       [profile_edit EXCEPT
          !.is_saving = FALSE,
          !.form_errors = {<<"general", ErrorMessage(resp, "An error occurred")>>},
          !.ev = "profileUpdateMutation_onError"]
  /\ UNCHANGED <<axios_auth, inflight, srv_ratings, store_ev, views_but_profile>>

\* What the user types into the fields.
UsernameInputs == {<<>>, <<"a", "b">>, ServerUsername}
NameInputs == {<<"A">>}
CurrentPasswordInputs == {<<>>, <<"o", "l", "d", "p", "a", "s", "s", "1">>}
NewPasswordInputs ==
  { <<>>,
    <<"s", "h", "o", "r", "t">>,
    <<"o", "l", "d", "p", "a", "s", "s", "1">>,
    <<"n", "e", "w", "p", "a", "s", "s", "1", "2">> }

ProfileResponses == {resp \in Responses : resp.message = "" /\ resp.status # 0}

ProfileEditNext ==
  \/ inflight = <<>> /\ OpenProfileEdit
  \/ \E i \in Slots, resp \in ProfileResponses : profileQuery_settle(i, resp)
  \/ \E value \in UsernameInputs : profile_handleInputChange("username", value)
  \/ \E value \in NameInputs : profile_handleInputChange("first_name", value)
  \/ \E value \in CurrentPasswordInputs :
        /\ profile_edit.password_section_visible
        /\ profile_handleInputChange("current_password", value)
  \/ \E value \in NewPasswordInputs :
        /\ profile_edit.password_section_visible
        /\ profile_handleInputChange("new_password", value)
  \/ togglePasswordSection
  \/ handleSaveProfileDetails
  \/ \E resp \in OkResponses : profileUpdateMutation_onSuccess(resp)
  \/ \E resp \in ErrResponses : profileUpdateMutation_onError(resp)

(* ------------------ password reset view (UV_PasswordReset) ------------- *)
\* The location the view is opened on: the :reset_token segment of the route and the
\* reset_token parameter of the query string, each null when absent.
ResetTokens == {"abc", "xyz"}

ResetLocations ==
  {[route_token |-> r, query_token |-> q] :
     r \in {Null} \cup {Some(t) : t \in ResetTokens},
     q \in {Null} \cup {Some(t) : t \in ResetTokens}}

\* new URLSearchParams(window.location.search).get('reset_token')
reset_token(location) == location.query_token

IsLowercase(c) ==
  c \in {"a", "b", "c", "d", "e", "f", "g", "h", "i", "j", "k", "l", "m", "n", "o", "p",
         "q", "r", "s", "t", "u", "v", "w", "x", "y", "z"}
IsUppercase(c) ==
  c \in {"A", "B", "C", "D", "E", "F", "G", "H", "I", "J", "K", "L", "M", "N", "O", "P",
         "Q", "R", "S", "T", "U", "V", "W", "X", "Y", "Z"}
IsPolicySpecial(c) == c \in {"@", "$", "!", "%", "*", "?", "&"}

MIN_PASSWORD_LENGTH == 8

\* PASSWORD_REGEX.test(text): a lowercase letter, an uppercase letter, a digit and one
\* of @$!%*?& somewhere, and eight or more characters, all of them letters, digits
\* or of @$!%*?&.
PASSWORD_REGEX(text) ==
  /\ \E k \in DOMAIN text : IsLowercase(text[k])
  /\ \E k \in DOMAIN text : IsUppercase(text[k])
  /\ \E k \in DOMAIN text : IsDigit(text[k])
  /\ \E k \in DOMAIN text : IsPolicySpecial(text[k])
  /\ Len(text) >= 8
  /\ \A k \in DOMAIN text :
        IsLowercase(text[k]) \/ IsUppercase(text[k]) \/ IsDigit(text[k])
          \/ IsPolicySpecial(text[k])

NoResetErrors == [new_password |-> "", confirm_password |-> "", general |-> ""]

\* The errors validate_password_inputs sets; the inputs are valid when it sets none.
validate_password_inputs(data) ==
  [ new_password |->
      IF data.new_password = <<>> THEN "Password is required."
      ELSE IF Len(data.new_password) < MIN_PASSWORD_LENGTH
      THEN "Password must be at least 8 characters long."
      ELSE IF ~PASSWORD_REGEX(data.new_password)
      THEN "Password must contain uppercase, lowercase, number, and special character."
      ELSE "",
    confirm_password |->
      IF data.confirm_password = <<>> THEN "Password confirmation is required."
      ELSE IF data.new_password # data.confirm_password THEN "Passwords do not match."
      ELSE "",
    general |-> "" ]

\* The view's state hooks; dirty says that the last render changed a dependency of
\* the effect on [reset_token, navigate, form_errors], errorsObject tells the
\* form_errors object the effect has made from the one it replaced; request is the
\* body of the POST /auth/reset-password in flight.
PasswordResetInit ==
  password_reset = [ mounted |-> FALSE,
                     location |-> [route_token |-> Null, query_token |-> Null],
                     password_reset_data |-> [new_password |-> <<>>,
                                              confirm_password |-> <<>>],
                     form_errors |-> NoResetErrors,
                     is_token_valid |-> TRUE,
                     dirty |-> FALSE,
                     errorsObject |-> 0,
                     request |-> Null,
                     ev |-> "none" ]

OpenPasswordReset(location) ==
  /\ ~password_reset.mounted
  /\ password_reset' = [ mounted |-> TRUE,
                         location |-> location,
                         password_reset_data |-> [new_password |-> <<>>,
                                                  confirm_password |-> <<>>],
                         form_errors |-> NoResetErrors,
                         is_token_valid |-> TRUE,
                         dirty |-> TRUE,
                         errorsObject |-> 0,
                         request |-> Null,
                         ev |-> "OpenPasswordReset" ]
  /\ UNCHANGED <<store_vars, views_but_reset>>

\* One run of the effect: without a token it sets is_token_valid and a new form_errors
\* object, which is one of its dependencies.
MissingTokenEffect_run ==
  /\ password_reset.mounted
  /\ password_reset.dirty
  /\ password_reset' =
       IF IsNull(reset_token(password_reset.location))
       THEN [password_reset EXCEPT
               !.is_token_valid = FALSE,
               !.form_errors.general = "Invalid request: Missing reset token.",
               !.errorsObject = 1 - @,
               !.dirty = TRUE,
               !.ev = "MissingTokenEffect"]
       ELSE [password_reset EXCEPT !.dirty = FALSE, !.ev = "MissingTokenEffect"]
  /\ UNCHANGED <<store_vars, views_but_reset>>

\* The form is rendered inside {is_token_valid && !passwordResetMutation.isSuccess &&
\* ...}; its inputs and its button are disabled while the request is in flight.
ResetFormShown ==
  /\ password_reset.mounted
  /\ ~password_reset.dirty
  /\ password_reset.is_token_valid
  /\ IsNull(password_reset.request)

reset_handle_change(name, value) ==
  /\ ResetFormShown
  /\ password_reset' = [password_reset EXCEPT
                          !.password_reset_data[name] = value,
                          !.form_errors[name] = "",
                          !.dirty = TRUE,
                          !.ev = "handle_change"]
  /\ UNCHANGED <<store_vars, views_but_reset>>

handle_submit ==
  /\ ResetFormShown
  /\ LET token == reset_token(password_reset.location)
         errors == validate_password_inputs(password_reset.password_reset_data)
     IN  password_reset' =
           IF IsNull(token)
           THEN [password_reset EXCEPT
                   !.form_errors.general = "Invalid request: Missing reset token.",
                   !.is_token_valid = FALSE,
                   !.dirty = TRUE,
                   !.ev = "handle_submit"]
           ELSE [password_reset EXCEPT
                   !.form_errors = errors,
                   !.dirty = TRUE,
                   !.request =
                      IF errors = NoResetErrors /\ password_reset.is_token_valid
                      THEN Some([reset_token |-> Val(token),
                                 new_password |->
                                   password_reset.password_reset_data.new_password,
                                 confirm_password |->
                                   password_reset.password_reset_data.new_password])
                      ELSE Null,
                   !.ev = "handle_submit"]
  /\ UNCHANGED <<store_vars, views_but_reset>>

\* The answers of POST /auth/reset-password: success, 400 with an error text that
\* names an invalid or expired token, or another failure.
ResetOutcomes == {"ok", "invalid_token", "error"}

\* onSuccess navigates to /login; onError sets the general error and, for an invalid
\* token, hides the form.
passwordResetMutation_settle(outcome) ==
  /\ password_reset.mounted
  /\ ~IsNull(password_reset.request)
  /\ password_reset' =
       CASE outcome = "ok" ->
              [password_reset EXCEPT !.mounted = FALSE, !.request = Null, !.dirty = FALSE,
                                     !.ev = "passwordResetMutation_onSuccess"]
         [] outcome = "invalid_token" ->
              [password_reset EXCEPT
                 !.request = Null,
                 !.is_token_valid = FALSE,
                 !.form_errors.general =
                    "The password reset link is invalid or has expired. Please request a new one.",
                 !.dirty = TRUE,
                 !.ev = "passwordResetMutation_onError"]
         [] OTHER ->
              [password_reset EXCEPT
                 !.request = Null,
                 !.form_errors.general = "Request failed",
                 !.dirty = TRUE,
                 !.ev = "passwordResetMutation_onError"]
  /\ UNCHANGED <<store_vars, views_but_reset>>

\* What the user types: a password of the policy, one whose special character is
\* none of @$!%*?&, a short one, nothing.
ResetPasswordInputs ==
  { <<>>,
    <<"A", "b", "1", "!">>,
    <<"A", "b", "c", "d", "e", "f", "1", "!">>,
    <<"A", "b", "c", "d", "e", "f", "1", "#">> }

PasswordResetNext ==
  \/ \E location \in ResetLocations : OpenPasswordReset(location)
  \/ MissingTokenEffect_run
  \/ \E value \in ResetPasswordInputs : reset_handle_change("new_password", value)
  \/ \E value \in ResetPasswordInputs : reset_handle_change("confirm_password", value)
  \/ handle_submit
  \/ \E outcome \in ResetOutcomes : passwordResetMutation_settle(outcome)

(* ------------------------- database (schema and seed) ----------------- *)
\* The database is modelled as PostgreSQL runs the schema script: `db.tables` holds
\* the rows of each table, `db.seq` the last value of each SERIAL key's sequence,
\* `db.seed_pc` the number of seed statements already run and `db.ev` the statement
\* that just ran, with its outcome.
Tables ==
  {"users", "recipes", "ingredients", "instructions", "recipe_tags", "ratings",
   "comments", "saved_recipes"}

\* The SERIAL PRIMARY KEY of each table that has one.
SerialKey ==
  [users |-> "user_id", recipes |-> "recipe_id", ingredients |-> "ingredient_id",
   instructions |-> "instruction_id", ratings |-> "rating_id",
   comments |-> "comment_id", saved_recipes |-> "saved_recipe_id"]

Int4 == [type |-> "int", limit |-> 0, not_null |-> TRUE]
Varchar(n) == [type |-> "varchar", limit |-> n, not_null |-> TRUE]
TextColumn == [type |-> "text", limit |-> 0, not_null |-> TRUE]
Numeric_10_2 == [type |-> "numeric", limit |-> 10, not_null |-> TRUE]
Nullable(col) == [col EXCEPT !.not_null = FALSE]

\* The columns a statement has to fill: the SERIAL keys and the timestamps have a
\* DEFAULT.
Columns ==
  [users |->
     [username |-> Varchar(255), email |-> Varchar(255), password_hash |-> Varchar(255),
      first_name |-> Nullable(Varchar(255)), last_name |-> Nullable(Varchar(255)),
      profile_picture_url |-> Nullable(Varchar(255))],
   recipes |->
     [user_id |-> Int4, title |-> Varchar(255), description |-> TextColumn,
      cover_photo_url |-> Varchar(255), prep_time_minutes |-> Int4,
      cook_time_minutes |-> Int4, servings |-> Int4, difficulty_level |-> Varchar(50),
      nutri_net_carbs_grams_per_serving |-> Nullable(Numeric_10_2),
      nutri_protein_grams_per_serving |-> Nullable(Numeric_10_2),
      nutri_fat_grams_per_serving |-> Nullable(Numeric_10_2),
      notes_tips |-> Nullable(TextColumn)],
   ingredients |->
     [recipe_id |-> Int4, quantity |-> Numeric_10_2, unit |-> Nullable(Varchar(50)),
      name |-> Varchar(255), order |-> Int4],
   instructions |->
     [recipe_id |-> Int4, step_number |-> Int4, description |-> TextColumn],
   recipe_tags |-> [recipe_id |-> Int4, tag_name |-> Varchar(100)],
   ratings |-> [recipe_id |-> Int4, user_id |-> Int4, rating |-> Int4],
   comments |-> [recipe_id |-> Int4, user_id |-> Int4, comment_text |-> TextColumn],
   saved_recipes |-> [user_id |-> Int4, recipe_id |-> Int4]]

\* UNIQUE constraints and the composite primary key of recipe_tags.  A key drawn
\* from a sequence is always new, so the SERIAL primary keys need no entry.
UniqueConstraints ==
  {[table |-> "users", columns |-> {"username"}],
   [table |-> "users", columns |-> {"email"}],
   [table |-> "instructions", columns |-> {"recipe_id", "step_number"}],
   [table |-> "recipe_tags", columns |-> {"recipe_id", "tag_name"}],
   [table |-> "ratings", columns |-> {"recipe_id", "user_id"}],
   [table |-> "saved_recipes", columns |-> {"user_id", "recipe_id"}]}

\* CHECK (rating >= 1 AND rating <= 5)
RatingCheck(rating) == rating >= 1 /\ rating <= 5

Cascade(table, column, ref_table, ref_column) ==
  [table |-> table, column |-> column, ref_table |-> ref_table,
   ref_column |-> ref_column, on_delete |-> "CASCADE"]

\* The schema without the foreign key from a recipe to its submitter.
ForeignKeys_without_recipe_owner ==
  {Cascade("ingredients", "recipe_id", "recipes", "recipe_id"),
   Cascade("instructions", "recipe_id", "recipes", "recipe_id"),
   Cascade("recipe_tags", "recipe_id", "recipes", "recipe_id"),
   Cascade("ratings", "recipe_id", "recipes", "recipe_id"),
   Cascade("ratings", "user_id", "users", "user_id"),
   Cascade("comments", "recipe_id", "recipes", "recipe_id"),
   Cascade("comments", "user_id", "users", "user_id"),
   Cascade("saved_recipes", "user_id", "users", "user_id"),
   Cascade("saved_recipes", "recipe_id", "recipes", "recipe_id")}

\* FOREIGN KEY (column) REFERENCES ref_table(ref_column) ON DELETE CASCADE
ForeignKeys ==
  {Cascade("recipes", "user_id", "users", "user_id"),
   Cascade("ingredients", "recipe_id", "recipes", "recipe_id"),
   Cascade("instructions", "recipe_id", "recipes", "recipe_id"),
   Cascade("recipe_tags", "recipe_id", "recipes", "recipe_id"),
   Cascade("ratings", "recipe_id", "recipes", "recipe_id"),
   Cascade("ratings", "user_id", "users", "user_id"),
   Cascade("comments", "recipe_id", "recipes", "recipe_id"),
   Cascade("comments", "user_id", "users", "user_id"),
   Cascade("saved_recipes", "user_id", "users", "user_id"),
   Cascade("saved_recipes", "recipe_id", "recipes", "recipe_id")}

\* The values a statement gives: an integer for an INT column, Str for a VARCHAR
\* column (the string and its length in characters), the length in characters for a
\* TEXT column (which takes any string), and a literal for a NUMERIC column: its
\* characters, and whether it is written between quotes.
Str(s, len) == [s |-> s, len |-> len]
Num(text) == [quoted |-> FALSE, text |-> text]
Quoted(text) == [quoted |-> TRUE, text |-> text]

\* The digit at position i of a text, 0 where the text has none.
DigitAt(u, i) == IF i <= Len(u) /\ IsDigit(u[i]) THEN DigitValue(u[i]) ELSE 0

\* An unsigned decimal whose integer digits end before position p: the point, if
\* any, stands at p and only digits follow; the value is in hundredths, rounded
\* half away from zero.
DecimalAt(u, p) ==
  IF IF p > Len(u) THEN p > 1
     ELSE u[p] = "." /\ Len(u) > 1 /\ \A i \in (p + 1)..Len(u) : IsDigit(u[i])
  THEN Some(100 * DigitsValue(SubSeq(u, 1, p - 1)) + 10 * DigitAt(u, p + 1)
              + DigitAt(u, p + 2) + (IF DigitAt(u, p + 3) >= 5 THEN 1 ELSE 0))
  ELSE Null

UnsignedDecimal(u) == DecimalAt(u, Len(DigitPrefix(u)) + 1)

WithSign(sign, v) == IF v # Null /\ sign = "-" THEN Some(0 - v[1]) ELSE v

Decimal(t) ==
  IF t # <<>> /\ t[1] \in {"+", "-"} THEN WithSign(t[1], UnsignedDecimal(Tail(t)))
  ELSE UnsignedDecimal(t)

\* The input conversion of NUMERIC(10, 2), for a literal in decimal notation (no
\* exponent): the value in hundredths, or Null when the text is not a number
\* ("invalid input syntax for type numeric").
numeric_in(text) == Decimal(TrimEnd(TrimStart(text)))

\* A literal that the column's type cannot read fails the statement before any row
\* is processed.
LiteralError(col, v) == col.type = "numeric" /\ numeric_in(v.text) = Null

\* Whether a well-formed value is within the column's type: the range of INT, the
\* length of VARCHAR(n), the precision of NUMERIC(10, 2).
ValueFits(col, v) ==
  CASE col.type = "int" -> v >= 0 - 2147483647 - 1 /\ v <= 2147483647
    [] col.type = "varchar" -> v.len <= col.limit
    [] col.type = "numeric" ->
         LET h == Val(numeric_in(v.text))
         IN  h \div 100 < 100000000 /\ h \div 100 > 0 - 100000000
    [] OTHER -> TRUE

\* What is stored for a value: a NUMERIC as its value in hundredths, the rest as
\* given.
StoredValue(col, v) == IF col.type = "numeric" THEN Val(numeric_in(v.text)) ELSE v

\* The row stored for a row of a statement: a column the statement leaves out is
\* NULL (absent), the SERIAL key takes the sequence's next value.
StoredRow(t, row, id) ==
  LET key == IF t \in DOMAIN SerialKey THEN {SerialKey[t]} ELSE {}
  IN  [c \in DOMAIN row \cup key |->
         IF c \in DOMAIN row THEN StoredValue(Columns[t][c], row[c]) ELSE id]

\* The constraint a row violates when it is inserted next to the rows `present`, or
\* "" if none: NOT NULL, the column types, CHECK and UNIQUE are enforced row by row.
RowError(present, t, row) ==
  IF \E c \in DOMAIN Columns[t] : Columns[t][c].not_null /\ c \notin DOMAIN row
    THEN "not_null_violation"
  ELSE IF \E c \in DOMAIN row : ~ValueFits(Columns[t][c], row[c])
    THEN "data_exception"
  ELSE IF t = "ratings" /\ "rating" \in DOMAIN row /\ ~RatingCheck(row.rating)
    THEN "check_violation"
  ELSE IF \E u \in UniqueConstraints :
            /\ u.table = t
            /\ u.columns \subseteq DOMAIN row
            /\ \E o \in present : \A c \in u.columns : o[c] = row[c]
    THEN "unique_violation"
  ELSE ""

\* A foreign key of the row that has no referenced row; foreign keys are enforced
\* at the end of the statement.
ForeignKeyViolation(tables, t, row) ==
  \E fk \in ForeignKeys :
    /\ fk.table = t
    /\ fk.column \in DOMAIN row
    /\ ~\E p \in tables[fk.ref_table] : p[fk.ref_column] = row[fk.column]

\* The rows of a multi-row INSERT are processed in order, from row k on; the first
\* row in error stops the statement.
RECURSIVE InsertRows(_, _, _, _, _)
InsertRows(present, t, rows, k, seq0) ==
  IF k > Len(rows) THEN [stored |-> present, failed_at |-> 0, error |-> ""]
  ELSE IF RowError(present, t, rows[k]) # ""
    THEN [stored |-> present, failed_at |-> k, error |-> RowError(present, t, rows[k])]
  ELSE InsertRows(present \cup {StoredRow(t, rows[k], seq0 + k)}, t, rows, k + 1, seq0)

\* INSERT INTO st.table (...) VALUES st.rows: a statement in error inserts none of
\* its rows; the sequence values it drew are not given back.
Insert(d, st) ==
  LET t == st.table
      serial == t \in DOMAIN SerialKey
      seq0 == IF serial THEN d.seq[t] ELSE 0
      malformed ==
        \E k \in 1..Len(st.rows) : \E c \in DOMAIN st.rows[k] :
          LiteralError(Columns[t][c], st.rows[k][c])
      run == InsertRows(d.tables[t], t, st.rows, 1, seq0)
      dangling ==
        \E k \in 1..Len(st.rows) : ForeignKeyViolation(d.tables, t, st.rows[k])
      error ==
        IF malformed THEN "invalid_text_representation"
        ELSE IF run.failed_at > 0 THEN run.error
        ELSE IF dangling THEN "foreign_key_violation"
        ELSE ""
      drawn ==
        IF malformed THEN 0
        ELSE IF run.failed_at > 0 THEN run.failed_at
        ELSE Len(st.rows)
  IN  [tables |-> IF error = "" THEN [d.tables EXCEPT ![t] = run.stored] ELSE d.tables,
       seq |-> IF serial THEN [d.seq EXCEPT ![t] = seq0 + drawn] ELSE d.seq,
       error |-> error]

\* The rows a DELETE removes: the rows `doomed`, and every row that references one
\* of them through a foreign key ON DELETE CASCADE, and so on.
RECURSIVE CascadeClosure(_, _)
CascadeClosure(tables, doomed) ==
  LET more ==
        [x \in Tables |->
           doomed[x] \cup
           {r \in tables[x] :
              \E fk \in ForeignKeys :
                /\ fk.table = x
                /\ fk.on_delete = "CASCADE"
                /\ fk.column \in DOMAIN r
                /\ \E p \in doomed[fk.ref_table] : p[fk.ref_column] = r[fk.column]}]
  IN  IF more = doomed THEN doomed ELSE CascadeClosure(tables, more)

\* DELETE FROM t WHERE column = value
Delete(tables, t, column, value) ==
  LET doomed ==
        CascadeClosure(tables,
          [x \in Tables |-> IF x = t THEN {r \in tables[t] : r[column] = value} ELSE {}])
  IN  [x \in Tables |-> tables[x] \ doomed[x]]

NoStatement == [op |-> "", table |-> "", key |-> 0, error |-> "", deleted |-> {}]

DbInit ==
  db = [tables |-> [t \in Tables |-> {}],
        seq |-> [t \in DOMAIN SerialKey |-> 0],
        seed_pc |-> 0,
        ev |-> NoStatement]

\* The rows that clients insert in the model: two users, and for each table rows on
\* the first two keys of users and recipes.
DbUserRows ==
  {[username |-> Str("alex_runner", 11), email |-> Str("alex.runner@example.com", 23),
    password_hash |-> Str("hashed_password_alex", 20), first_name |-> Str("Alex", 4),
    last_name |-> Str("Johnson", 7),
    profile_picture_url |-> Str("https://picsum.photos/seed/alex_runner/200", 42)],
   [username |-> Str("sarah_cook", 10), email |-> Str("sarah.cook@example.com", 22),
    password_hash |-> Str("hashed_password_sarah", 21), first_name |-> Str("Sarah", 5),
    last_name |-> Str("Miller", 6),
    profile_picture_url |-> Str("https://picsum.photos/seed/sarah_cook/200", 41)]}

DbRows ==
  [users |-> DbUserRows,
   recipes |->
     {[user_id |-> u, title |-> Str("Avocado Egg Salad", 17), description |-> 68,
       cover_photo_url |-> Str("https://picsum.photos/seed/avocado_egg_salad/600", 48),
       prep_time_minutes |-> 10, cook_time_minutes |-> 0, servings |-> 2,
       difficulty_level |-> Str("Easy", 4),
       nutri_net_carbs_grams_per_serving |-> Num(<<"4", ".", "2">>),
       nutri_protein_grams_per_serving |-> Num(<<"1", "5", ".", "5">>),
       nutri_fat_grams_per_serving |-> Num(<<"2", "8", ".", "0">>),
       notes_tips |-> 51] : u \in Users},
   ingredients |->
     {[recipe_id |-> r, quantity |-> Num(<<"6">>), unit |-> Str("large", 5),
       name |-> Str("Eggs", 4), order |-> 1] : r \in RecipeIds},
   instructions |->
     {[recipe_id |-> r, step_number |-> 1, description |-> 34] : r \in RecipeIds},
   recipe_tags |-> {[recipe_id |-> r, tag_name |-> Str("Low Carb", 8)] : r \in RecipeIds},
   ratings |->
     {[recipe_id |-> r, user_id |-> u, rating |-> n] :
        r \in RecipeIds, u \in Users, n \in {5, 6}},
   comments |->
     {[recipe_id |-> r, user_id |-> u, comment_text |-> 49] : r \in RecipeIds, u \in Users},
   saved_recipes |-> {[user_id |-> u, recipe_id |-> r] : r \in RecipeIds, u \in Users}]

DbStatements ==
  UNION {{[table |-> t, rows |-> <<row>>] : row \in DbRows[t]} : t \in Tables}

\* The statements of clients are capped by the values drawn from the sequences
\* (and the rows of recipe_tags, which has no sequence).
DbBudget ==
  db.seq["users"] + db.seq["recipes"] + db.seq["ingredients"]
    + db.seq["instructions"] + db.seq["ratings"] + db.seq["comments"]
    + db.seq["saved_recipes"] + Cardinality(db.tables["recipe_tags"]) < MaxDbRows

\* INSERT INTO users (username, email, password_hash, first_name, last_name,
\* profile_picture_url)
seed_users ==
  [table |-> "users",
   rows |-> <<
     [username |-> Str("alex_runner", 11), email |-> Str("alex.runner@example.com", 23),
      password_hash |-> Str("hashed_password_alex", 20), first_name |-> Str("Alex", 4),
      last_name |-> Str("Johnson", 7),
      profile_picture_url |-> Str("https://picsum.photos/seed/alex_runner/200", 42)],
     [username |-> Str("sarah_cook", 10), email |-> Str("sarah.cook@example.com", 22),
      password_hash |-> Str("hashed_password_sarah", 21), first_name |-> Str("Sarah", 5),
      last_name |-> Str("Miller", 6),
      profile_picture_url |-> Str("https://picsum.photos/seed/sarah_cook/200", 41)],
     [username |-> Str("keto_guru", 9), email |-> Str("keto.guru@example.com", 21),
      password_hash |-> Str("hashed_password_guru", 20), first_name |-> Str("Mike", 4),
      last_name |-> Str("Davis", 5),
      profile_picture_url |-> Str("https://picsum.photos/seed/keto_guru/200", 40)],
     [username |-> Str("fit_foodie", 10), email |-> Str("fit.foodie@example.com", 22),
      password_hash |-> Str("hashed_password_fit", 19), first_name |-> Str("Jessica", 7),
      last_name |-> Str("White", 5),
      profile_picture_url |-> Str("https://picsum.photos/seed/fit_foodie/200", 41)],
     [username |-> Str("macro_master", 12), email |-> Str("macro.master@example.com", 24),
      password_hash |-> Str("hashed_password_macro", 21), first_name |-> Str("Chris", 5),
      last_name |-> Str("Lee", 3),
      profile_picture_url |-> Str("https://picsum.photos/seed/macro_master/200", 43)] >>]

\* INSERT INTO recipes (user_id, title, description, cover_photo_url, prep_time_minutes,
\* cook_time_minutes, servings, difficulty_level, nutri_net_carbs_grams_per_serving,
\* nutri_protein_grams_per_serving, nutri_fat_grams_per_serving, notes_tips)
seed_recipes ==
  [table |-> "recipes",
   rows |-> <<
     [user_id |-> 1, title |-> Str("Keto Chicken Stir-Fry", 21), description |-> 79,
      cover_photo_url |-> Str("https://picsum.photos/seed/keto_chicken_stirfry/600", 51),
      prep_time_minutes |-> 15, cook_time_minutes |-> 20, servings |-> 4,
      difficulty_level |-> Str("Easy", 4),
      nutri_net_carbs_grams_per_serving |-> Num(<<"8", ".", "5">>),
      nutri_protein_grams_per_serving |-> Num(<<"3", "5", ".", "2">>),
      nutri_fat_grams_per_serving |-> Num(<<"2", "5", ".", "1">>), notes_tips |-> 68],
     [user_id |-> 1, title |-> Str("Avocado Egg Salad", 17), description |-> 70,
      cover_photo_url |-> Str("https://picsum.photos/seed/avocado_egg_salad/600", 48),
      prep_time_minutes |-> 10, cook_time_minutes |-> 0, servings |-> 2,
      difficulty_level |-> Str("Easy", 4),
      nutri_net_carbs_grams_per_serving |-> Num(<<"4", ".", "2">>),
      nutri_protein_grams_per_serving |-> Num(<<"1", "5", ".", "5">>),
      nutri_fat_grams_per_serving |-> Num(<<"2", "8", ".", "0">>), notes_tips |-> 48],
     [user_id |-> 2, title |-> Str("Keto Berry Smoothie", 19), description |-> 64,
      cover_photo_url |-> Str("https://picsum.photos/seed/keto_berry_smoothie/600", 50),
      prep_time_minutes |-> 5, cook_time_minutes |-> 0, servings |-> 1,
      difficulty_level |-> Str("Easy", 4),
      nutri_net_carbs_grams_per_serving |-> Num(<<"7", ".", "0">>),
      nutri_protein_grams_per_serving |-> Num(<<"1", "2", ".", "1">>),
      nutri_fat_grams_per_serving |-> Num(<<"1", "8", ".", "5">>), notes_tips |-> 58],
     [user_id |-> 3, title |-> Str("Fat Bomb Brownies", 17), description |-> 54,
      cover_photo_url |-> Str("https://picsum.photos/seed/fat_bomb_brownies/600", 48),
      prep_time_minutes |-> 20, cook_time_minutes |-> 25, servings |-> 12,
      difficulty_level |-> Str("Medium", 6),
      nutri_net_carbs_grams_per_serving |-> Num(<<"5", ".", "5">>),
      nutri_protein_grams_per_serving |-> Num(<<"7", ".", "8">>),
      nutri_fat_grams_per_serving |-> Num(<<"3", "2", ".", "2">>), notes_tips |-> 63],
     [user_id |-> 4, title |-> Str("Grilled Salmon with Asparagus", 29),
      description |-> 63,
      cover_photo_url |-> Str("https://picsum.photos/seed/grilled_salmon_asparagrus/600", 56),
      prep_time_minutes |-> 10, cook_time_minutes |-> 15, servings |-> 2,
      difficulty_level |-> Str("Easy", 4),
      nutri_net_carbs_grams_per_serving |-> Num(<<"3", ".", "1">>),
      nutri_protein_grams_per_serving |-> Num(<<"4", "0", ".", "0">>),
      nutri_fat_grams_per_serving |-> Num(<<"3", "0", ".", "5">>), notes_tips |-> 62],
     [user_id |-> 5, title |-> Str("Cauliflower Mash", 16), description |-> 42,
      cover_photo_url |-> Str("https://picsum.photos/seed/cauliflower_mash/600", 47),
      prep_time_minutes |-> 10, cook_time_minutes |-> 15, servings |-> 4,
      difficulty_level |-> Str("Easy", 4),
      nutri_net_carbs_grams_per_serving |-> Num(<<"6", ".", "2">>),
      nutri_protein_grams_per_serving |-> Num(<<"4", ".", "5">>),
      nutri_fat_grams_per_serving |-> Num(<<"1", "5", ".", "0">>), notes_tips |-> 54],
     [user_id |-> 1, title |-> Str("Keto Pork Belly Bites", 21), description |-> 71,
      cover_photo_url |-> Str("https://picsum.photos/seed/keto_pork_belly_bites/600", 52),
      prep_time_minutes |-> 10, cook_time_minutes |-> 45, servings |-> 3,
      difficulty_level |-> Str("Medium", 6),
      nutri_net_carbs_grams_per_serving |-> Num(<<"0", ".", "5">>),
      nutri_protein_grams_per_serving |-> Num(<<"2", "0", ".", "3">>),
      nutri_fat_grams_per_serving |-> Num(<<"4", "5", ".", "8">>), notes_tips |-> 49],
     [user_id |-> 2, title |-> Str("Zucchini Noodles with Pesto", 27), description |-> 66,
      cover_photo_url |-> Str("https://picsum.photos/seed/zucchini_noodles_pesto/600", 53),
      prep_time_minutes |-> 15, cook_time_minutes |-> 10, servings |-> 2,
      difficulty_level |-> Str("Easy", 4),
      nutri_net_carbs_grams_per_serving |-> Num(<<"9", ".", "8">>),
      nutri_protein_grams_per_serving |-> Num(<<"1", "0", ".", "2">>),
      nutri_fat_grams_per_serving |-> Num(<<"2", "2", ".", "9">>), notes_tips |-> 46],
     [user_id |-> 3, title |-> Str("Keto Fat Head Pizza", 19), description |-> 75,
      cover_photo_url |-> Str("https://picsum.photos/seed/keto_fat_head_pizza/600", 50),
      prep_time_minutes |-> 25, cook_time_minutes |-> 15, servings |-> 1,
      difficulty_level |-> Str("Medium", 6),
      nutri_net_carbs_grams_per_serving |-> Num(<<"7", ".", "5">>),
      nutri_protein_grams_per_serving |-> Num(<<"1", "8", ".", "0">>),
      nutri_fat_grams_per_serving |-> Num(<<"3", "5", ".", "0">>), notes_tips |-> 76],
     [user_id |-> 4, title |-> Str("Bulletproof Coffee", 18), description |-> 49,
      cover_photo_url |-> Str("https://picsum.photos/seed/bulletproof_coffee/600", 49),
      prep_time_minutes |-> 5, cook_time_minutes |-> 0, servings |-> 1,
      difficulty_level |-> Str("Easy", 4),
      nutri_net_carbs_grams_per_serving |-> Num(<<"0", ".", "2">>),
      nutri_protein_grams_per_serving |-> Num(<<"1", ".", "5">>),
      nutri_fat_grams_per_serving |-> Num(<<"2", "0", ".", "0">>), notes_tips |-> 53] >>]

\* INSERT INTO ingredients (recipe_id, quantity, unit, name, order)
seed_ingredients ==
  [table |-> "ingredients",
   rows |-> <<
     [recipe_id |-> 1, quantity |-> Num(<<"5", "0", "0">>), unit |-> Str("g", 1),
      name |-> Str("Chicken Breast", 14), order |-> 1],
     [recipe_id |-> 1, quantity |-> Num(<<"2">>), unit |-> Str("cups", 4),
      name |-> Str("Broccoli Florets", 16), order |-> 2],
     [recipe_id |-> 1, quantity |-> Num(<<"1">>), unit |-> Str("cup", 3),
      name |-> Str("Bell Pepper, sliced", 19), order |-> 3],
     [recipe_id |-> 1, quantity |-> Num(<<"3">>), unit |-> Str("tbsp", 4),
      name |-> Str("Soy Sauce (or Tamari)", 21), order |-> 4],
     [recipe_id |-> 1, quantity |-> Num(<<"1">>), unit |-> Str("tbsp", 4),
      name |-> Str("Sesame Oil", 10), order |-> 5],
     [recipe_id |-> 1, quantity |-> Num(<<"2">>), unit |-> Str("cloves", 6),
      name |-> Str("Garlic, minced", 14), order |-> 6],
     [recipe_id |-> 2, quantity |-> Num(<<"6">>), unit |-> Str("large", 5),
      name |-> Str("Eggs", 4), order |-> 1],
     [recipe_id |-> 2, quantity |-> Num(<<"1">>), unit |-> Str("ripe", 4),
      name |-> Str("Avocado", 7), order |-> 2],
     [recipe_id |-> 2, quantity |-> Num(<<"2">>), unit |-> Str("tbsp", 4),
      name |-> Str("Mayonnaise", 10), order |-> 3],
     [recipe_id |-> 2, quantity |-> Num(<<"1">>), unit |-> Str("tsp", 3),
      name |-> Str("Lemon Juice", 11), order |-> 4],
     [recipe_id |-> 2, quantity |-> Quoted(<<"t", "o", " ", "t", "a", "s", "t", "e">>),
      unit |-> Str("", 0), name |-> Str("Salt & Pepper", 13), order |-> 5],
     [recipe_id |-> 3, quantity |-> Num(<<"1">>), unit |-> Str("cup", 3),
      name |-> Str("Mixed Berries (frozen)", 22), order |-> 1],
     [recipe_id |-> 3, quantity |-> Num(<<"1", ".", "5">>), unit |-> Str("cups", 4),
      name |-> Str("Unsweetened Almond Milk", 23), order |-> 2],
     [recipe_id |-> 3, quantity |-> Num(<<"1">>), unit |-> Str("scoop", 5),
      name |-> Str("Keto Protein Powder", 19), order |-> 3],
     [recipe_id |-> 3, quantity |-> Num(<<"1">>), unit |-> Str("tbsp", 4),
      name |-> Str("Chia Seeds", 10), order |-> 4],
     [recipe_id |-> 3, quantity |-> Num(<<"1">>), unit |-> Str("tbsp", 4),
      name |-> Str("MCT Oil", 7), order |-> 5],
     [recipe_id |-> 4, quantity |-> Num(<<"1">>), unit |-> Str("cup", 3),
      name |-> Str("Almond Flour", 12), order |-> 1],
     [recipe_id |-> 4, quantity |-> Num(<<"0", ".", "5">>), unit |-> Str("cup", 3),
      name |-> Str("Cocoa Powder", 12), order |-> 2],
     [recipe_id |-> 4, quantity |-> Num(<<"0", ".", "5">>), unit |-> Str("cup", 3),
      name |-> Str("Erythritol", 10), order |-> 3],
     [recipe_id |-> 4, quantity |-> Num(<<"0", ".", "2", "5">>), unit |-> Str("cup", 3),
      name |-> Str("Butter, melted", 14), order |-> 4],
     [recipe_id |-> 4, quantity |-> Num(<<"1">>), unit |-> Str("large", 5),
      name |-> Str("Egg", 3), order |-> 5],
     [recipe_id |-> 4, quantity |-> Num(<<"1">>), unit |-> Str("tsp", 3),
      name |-> Str("Vanilla Extract", 15), order |-> 6],
     [recipe_id |-> 5, quantity |-> Num(<<"1">>), unit |-> Str("lb", 2),
      name |-> Str("Salmon Fillet", 13), order |-> 1],
     [recipe_id |-> 5, quantity |-> Num(<<"1">>), unit |-> Str("bunch", 5),
      name |-> Str("Asparagus", 9), order |-> 2],
     [recipe_id |-> 5, quantity |-> Num(<<"2">>), unit |-> Str("tbsp", 4),
      name |-> Str("Olive Oil", 9), order |-> 3],
     [recipe_id |-> 5, quantity |-> Quoted(<<"t", "o", " ", "t", "a", "s", "t", "e">>),
      unit |-> Str("", 0), name |-> Str("Salt & Pepper", 13), order |-> 4],
     [recipe_id |-> 5, quantity |-> Num(<<"1">>), unit |-> Str("", 0),
      name |-> Str("Lemon Wedge", 11), order |-> 5],
     [recipe_id |-> 6, quantity |-> Num(<<"1">>), unit |-> Str("head", 4),
      name |-> Str("Cauliflower, florets", 20), order |-> 1],
     [recipe_id |-> 6, quantity |-> Num(<<"0", ".", "2", "5">>), unit |-> Str("cup", 3),
      name |-> Str("Heavy Cream", 11), order |-> 2],
     [recipe_id |-> 6, quantity |-> Num(<<"2">>), unit |-> Str("tbsp", 4),
      name |-> Str("Butter", 6), order |-> 3],
     [recipe_id |-> 6, quantity |-> Quoted(<<"t", "o", " ", "t", "a", "s", "t", "e">>),
      unit |-> Str("", 0), name |-> Str("Salt & Pepper", 13), order |-> 4],
     [recipe_id |-> 7, quantity |-> Num(<<"5", "0", "0">>), unit |-> Str("g", 1),
      name |-> Str("Pork Belly", 10), order |-> 1],
     [recipe_id |-> 7, quantity |-> Num(<<"1">>), unit |-> Str("tsp", 3),
      name |-> Str("Garlic Powder", 13), order |-> 2],
     [recipe_id |-> 7, quantity |-> Num(<<"1">>), unit |-> Str("tsp", 3),
      name |-> Str("Onion Powder", 12), order |-> 3],
     [recipe_id |-> 7, quantity |-> Num(<<"0", ".", "5">>), unit |-> Str("tsp", 3),
      name |-> Str("Paprika", 7), order |-> 4],
     [recipe_id |-> 7, quantity |-> Quoted(<<"t", "o", " ", "t", "a", "s", "t", "e">>),
      unit |-> Str("", 0), name |-> Str("Salt & Pepper", 13), order |-> 5],
     [recipe_id |-> 8, quantity |-> Num(<<"2">>), unit |-> Str("", 0),
      name |-> Str("Large Zucchini", 14), order |-> 1],
     [recipe_id |-> 8, quantity |-> Num(<<"1">>), unit |-> Str("cup", 3),
      name |-> Str("Fresh Basil", 11), order |-> 2],
     [recipe_id |-> 8, quantity |-> Num(<<"0", ".", "5">>), unit |-> Str("cup", 3),
      name |-> Str("Pine Nuts", 9), order |-> 3],
     [recipe_id |-> 8, quantity |-> Num(<<"0", ".", "5">>), unit |-> Str("cup", 3),
      name |-> Str("Parmesan Cheese, grated", 23), order |-> 4],
     [recipe_id |-> 8, quantity |-> Num(<<"3">>), unit |-> Str("cloves", 6),
      name |-> Str("Garlic", 6), order |-> 5],
     [recipe_id |-> 8, quantity |-> Num(<<"0", ".", "5">>), unit |-> Str("cup", 3),
      name |-> Str("Olive Oil", 9), order |-> 6],
     [recipe_id |-> 9, quantity |-> Num(<<"1", ".", "5">>), unit |-> Str("cups", 4),
      name |-> Str("Mozzarella Cheese, shredded", 27), order |-> 1],
     [recipe_id |-> 9, quantity |-> Num(<<"0", ".", "7", "5">>), unit |-> Str("cup", 3),
      name |-> Str("Almond Flour", 12), order |-> 2],
     [recipe_id |-> 9, quantity |-> Num(<<"2">>), unit |-> Str("tbsp", 4),
      name |-> Str("Cream Cheese", 12), order |-> 3],
     [recipe_id |-> 9, quantity |-> Num(<<"1">>), unit |-> Str("large", 5),
      name |-> Str("Egg", 3), order |-> 4],
     [recipe_id |-> 9, quantity |-> Num(<<"0", ".", "5">>), unit |-> Str("cup", 3),
      name |-> Str("Pizza Sauce", 11), order |-> 5],
     [recipe_id |-> 9, quantity |-> Num(<<"1">>), unit |-> Str("cup", 3),
      name |-> Str("Toppings of choice", 18), order |-> 6],
     [recipe_id |-> 10, quantity |-> Num(<<"1">>), unit |-> Str("cup", 3),
      name |-> Str("Hot Coffee", 10), order |-> 1],
     [recipe_id |-> 10, quantity |-> Num(<<"1">>), unit |-> Str("tbsp", 4),
      name |-> Str("Grass-fed Butter", 16), order |-> 2],
     [recipe_id |-> 10, quantity |-> Num(<<"1">>), unit |-> Str("tbsp", 4),
      name |-> Str("MCT Oil", 7), order |-> 3] >>]

\* INSERT INTO instructions (recipe_id, step_number, description)
seed_instructions ==
  [table |-> "instructions",
   rows |-> <<
     [recipe_id |-> 1, step_number |-> 1, description |-> 64],
     [recipe_id |-> 1, step_number |-> 2, description |-> 61],
     [recipe_id |-> 1, step_number |-> 3, description |-> 61],
     [recipe_id |-> 1, step_number |-> 4, description |-> 104],
     [recipe_id |-> 1, step_number |-> 5, description |-> 75],
     [recipe_id |-> 1, step_number |-> 6, description |-> 10],
     [recipe_id |-> 2, step_number |-> 1, description |-> 30],
     [recipe_id |-> 2, step_number |-> 2, description |-> 58],
     [recipe_id |-> 2, step_number |-> 3, description |-> 66],
     [recipe_id |-> 2, step_number |-> 4, description |-> 59],
     [recipe_id |-> 2, step_number |-> 5, description |-> 53],
     [recipe_id |-> 3, step_number |-> 1, description |-> 37],
     [recipe_id |-> 3, step_number |-> 2, description |-> 30],
     [recipe_id |-> 3, step_number |-> 3, description |-> 40],
     [recipe_id |-> 4, step_number |-> 1, description |-> 61],
     [recipe_id |-> 4, step_number |-> 2, description |-> 62],
     [recipe_id |-> 4, step_number |-> 3, description |-> 69],
     [recipe_id |-> 4, step_number |-> 4, description |-> 45],
     [recipe_id |-> 4, step_number |-> 5, description |-> 86],
     [recipe_id |-> 4, step_number |-> 6, description |-> 35],
     [recipe_id |-> 5, step_number |-> 1, description |-> 34],
     [recipe_id |-> 5, step_number |-> 2, description |-> 48],
     [recipe_id |-> 5, step_number |-> 3, description |-> 66],
     [recipe_id |-> 5, step_number |-> 4, description |-> 84],
     [recipe_id |-> 5, step_number |-> 5, description |-> 74],
     [recipe_id |-> 5, step_number |-> 6, description |-> 54],
     [recipe_id |-> 6, step_number |-> 1, description |-> 52],
     [recipe_id |-> 6, step_number |-> 2, description |-> 70],
     [recipe_id |-> 6, step_number |-> 3, description |-> 42],
     [recipe_id |-> 6, step_number |-> 4, description |-> 92],
     [recipe_id |-> 7, step_number |-> 1, description |-> 30],
     [recipe_id |-> 7, step_number |-> 2, description |-> 102],
     [recipe_id |-> 7, step_number |-> 3, description |-> 61],
     [recipe_id |-> 7, step_number |-> 4, description |-> 84],
     [recipe_id |-> 8, step_number |-> 1, description |-> 48],
     [recipe_id |-> 8, step_number |-> 2, description |-> 106],
     [recipe_id |-> 8, step_number |-> 3, description |-> 88],
     [recipe_id |-> 8, step_number |-> 4, description |-> 43],
     [recipe_id |-> 8, step_number |-> 5, description |-> 18],
     [recipe_id |-> 9, step_number |-> 1, description |-> 30],
     [recipe_id |-> 9, step_number |-> 2, description |-> 101],
     [recipe_id |-> 9, step_number |-> 3, description |-> 74],
     [recipe_id |-> 9, step_number |-> 4, description |-> 51],
     [recipe_id |-> 9, step_number |-> 5, description |-> 60],
     [recipe_id |-> 9, step_number |-> 6, description |-> 84],
     [recipe_id |-> 10, step_number |-> 1, description |-> 26],
     [recipe_id |-> 10, step_number |-> 2, description |-> 31],
     [recipe_id |-> 10, step_number |-> 3, description |-> 33],
     [recipe_id |-> 10, step_number |-> 4, description |-> 66],
     [recipe_id |-> 10, step_number |-> 5, description |-> 18] >>]

\* INSERT INTO recipe_tags (recipe_id, tag_name)
seed_recipe_tags ==
  [table |-> "recipe_tags",
   rows |-> <<
     [recipe_id |-> 1, tag_name |-> Str("Low Carb", 8)],
     [recipe_id |-> 1, tag_name |-> Str("High Protein", 12)],
     [recipe_id |-> 1, tag_name |-> Str("Quick Meal", 10)],
     [recipe_id |-> 2, tag_name |-> Str("Low Carb", 8)],
     [recipe_id |-> 2, tag_name |-> Str("Healthy Fats", 12)],
     [recipe_id |-> 2, tag_name |-> Str("Lunch", 5)],
     [recipe_id |-> 3, tag_name |-> Str("Low Carb", 8)],
     [recipe_id |-> 3, tag_name |-> Str("Keto", 4)],
     [recipe_id |-> 3, tag_name |-> Str("Smoothie", 8)],
     [recipe_id |-> 3, tag_name |-> Str("Breakfast", 9)],
     [recipe_id |-> 4, tag_name |-> Str("Low Carb", 8)],
     [recipe_id |-> 4, tag_name |-> Str("Keto Dessert", 12)],
     [recipe_id |-> 4, tag_name |-> Str("Baking", 6)],
     [recipe_id |-> 5, tag_name |-> Str("Low Carb", 8)],
     [recipe_id |-> 5, tag_name |-> Str("Healthy Fats", 12)],
     [recipe_id |-> 5, tag_name |-> Str("Quick Meal", 10)],
     [recipe_id |-> 6, tag_name |-> Str("Low Carb", 8)],
     [recipe_id |-> 6, tag_name |-> Str("Side Dish", 9)],
     [recipe_id |-> 6, tag_name |-> Str("Vegetarian", 10)],
     [recipe_id |-> 7, tag_name |-> Str("Low Carb", 8)],
     [recipe_id |-> 7, tag_name |-> Str("Appetizer", 9)],
     [recipe_id |-> 7, tag_name |-> Str("Pork", 4)],
     [recipe_id |-> 8, tag_name |-> Str("Low Carb", 8)],
     [recipe_id |-> 8, tag_name |-> Str("Vegetarian", 10)],
     [recipe_id |-> 8, tag_name |-> Str("Pasta Alternative", 17)],
     [recipe_id |-> 9, tag_name |-> Str("Low Carb", 8)],
     [recipe_id |-> 9, tag_name |-> Str("Keto Pizza", 10)],
     [recipe_id |-> 9, tag_name |-> Str("Family Friendly", 15)],
     [recipe_id |-> 10, tag_name |-> Str("Keto", 4)],
     [recipe_id |-> 10, tag_name |-> Str("Breakfast", 9)],
     [recipe_id |-> 10, tag_name |-> Str("Energy Boost", 12)] >>]

\* INSERT INTO ratings (recipe_id, user_id, rating)
seed_ratings ==
  [table |-> "ratings",
   rows |-> <<
     [recipe_id |-> 1, user_id |-> 1, rating |-> 5],
     [recipe_id |-> 1, user_id |-> 2, rating |-> 4],
     [recipe_id |-> 2, user_id |-> 1, rating |-> 5],
     [recipe_id |-> 2, user_id |-> 3, rating |-> 4],
     [recipe_id |-> 3, user_id |-> 2, rating |-> 5],
     [recipe_id |-> 3, user_id |-> 4, rating |-> 4],
     [recipe_id |-> 4, user_id |-> 3, rating |-> 5],
     [recipe_id |-> 4, user_id |-> 1, rating |-> 4],
     [recipe_id |-> 5, user_id |-> 4, rating |-> 5],
     [recipe_id |-> 5, user_id |-> 2, rating |-> 5],
     [recipe_id |-> 6, user_id |-> 5, rating |-> 4],
     [recipe_id |-> 6, user_id |-> 1, rating |-> 3],
     [recipe_id |-> 7, user_id |-> 1, rating |-> 5],
     [recipe_id |-> 7, user_id |-> 3, rating |-> 4],
     [recipe_id |-> 8, user_id |-> 2, rating |-> 5],
     [recipe_id |-> 8, user_id |-> 4, rating |-> 4],
     [recipe_id |-> 9, user_id |-> 3, rating |-> 5],
     [recipe_id |-> 9, user_id |-> 5, rating |-> 4],
     [recipe_id |-> 10, user_id |-> 4, rating |-> 5],
     [recipe_id |-> 10, user_id |-> 1, rating |-> 5] >>]

\* INSERT INTO comments (recipe_id, user_id, comment_text)
seed_comments ==
  [table |-> "comments",
   rows |-> <<
     [recipe_id |-> 1, user_id |-> 2, comment_text |-> 65],
     [recipe_id |-> 1, user_id |-> 5, comment_text |-> 47],
     [recipe_id |-> 2, user_id |-> 3, comment_text |-> 48],
     [recipe_id |-> 3, user_id |-> 4, comment_text |-> 62],
     [recipe_id |-> 4, user_id |-> 1, comment_text |-> 36],
     [recipe_id |-> 5, user_id |-> 2, comment_text |-> 63],
     [recipe_id |-> 7, user_id |-> 3, comment_text |-> 54],
     [recipe_id |-> 8, user_id |-> 4, comment_text |-> 54],
     [recipe_id |-> 9, user_id |-> 5, comment_text |-> 65],
     [recipe_id |-> 10, user_id |-> 1, comment_text |-> 44] >>]

\* INSERT INTO saved_recipes (user_id, recipe_id)
seed_saved_recipes ==
  [table |-> "saved_recipes",
   rows |-> <<
     [user_id |-> 1, recipe_id |-> 1],
     [user_id |-> 1, recipe_id |-> 4],
     [user_id |-> 2, recipe_id |-> 3],
     [user_id |-> 2, recipe_id |-> 8],
     [user_id |-> 3, recipe_id |-> 1],
     [user_id |-> 3, recipe_id |-> 5],
     [user_id |-> 4, recipe_id |-> 2],
     [user_id |-> 4, recipe_id |-> 7],
     [user_id |-> 5, recipe_id |-> 3],
     [user_id |-> 5, recipe_id |-> 9] >>]

\* The statements of the seed, in the order of the script.
SeedScript ==
  <<seed_users, seed_recipes, seed_ingredients, seed_instructions,
    seed_recipe_tags, seed_ratings, seed_comments, seed_saved_recipes>>

NoTables == {}

\* A statement from a client: INSERT INTO st.table ... VALUES (one row).
INSERT_INTO(st) ==
  /\ DbBudget
  /\ LET r == Insert(db, st)
     IN  db' = [db EXCEPT !.tables = r.tables, !.seq = r.seq,
                  !.ev = [op |-> "INSERT", table |-> st.table, key |-> 0,
                          error |-> r.error, deleted |-> NoTables]]
  /\ UNCHANGED <<store_vars, views_but_db>>

\* DELETE FROM t WHERE <its key> = key, for t = users and t = recipes.
DELETE_FROM(t, key) ==
  /\ \E r \in db.tables[t] : r[SerialKey[t]] = key
  /\ LET after == Delete(db.tables, t, SerialKey[t], key)
     IN  db' = [db EXCEPT !.tables = after,
                  !.ev = [op |-> "DELETE", table |-> t, key |-> key, error |-> "",
                          deleted |-> {x \in Tables : after[x] # db.tables[x]}]]
  /\ UNCHANGED <<store_vars, views_but_db>>

DELETE_FROM_users(user_id) == DELETE_FROM("users", user_id)

DELETE_FROM_recipes(recipe_id) == DELETE_FROM("recipes", recipe_id)

\* What running the script does after a statement in error: psql goes on with the
\* next statement, psql with ON_ERROR_STOP leaves the script, and a script sent as
\* one query (or run in one transaction) is rolled back whole, its CREATE TABLEs
\* included.
SeedErrorModes == {"continue", "stop", "rollback"}

\* The next statement of the seed script.
seed_statement(on_error) ==
  /\ db.seed_pc < Len(SeedScript)
  /\ LET st == SeedScript[db.seed_pc + 1]
         r == Insert(db, st)
         ev == [op |-> "SEED", table |-> st.table, key |-> 0, error |-> r.error,
                deleted |-> NoTables]
     IN  IF r.error = "" \/ on_error = "continue"
           THEN db' = [tables |-> r.tables, seq |-> r.seq,
                       seed_pc |-> db.seed_pc + 1, ev |-> ev]
         ELSE IF on_error = "stop"
           THEN db' = [tables |-> r.tables, seq |-> r.seq,
                       seed_pc |-> Len(SeedScript), ev |-> ev]
         ELSE db' = [tables |-> [t \in Tables |-> {}],
                     seq |-> [t \in DOMAIN SerialKey |-> 0],
                     seed_pc |-> Len(SeedScript), ev |-> ev]
  /\ UNCHANGED <<store_vars, views_but_db>>

KeysOf(t) == {r[SerialKey[t]] : r \in db.tables[t]}

(* ------------------------ store specification ------------------------- *)
StoreNext ==
  \/ login
  \/ \E i \in Slots, resp \in Responses : login_response(i, resp)
  \/ logout
  \/ register
  \/ \E i \in Slots, resp \in Responses : register_response(i, resp)
  \/ loadUserProfile
  \/ \E i \in Slots, resp \in Responses : loadUserProfile_response(i, resp)
  \/ updateUserProfile
  \/ \E i \in Slots, resp \in Responses : updateUserProfile_response(i, resp)
  \/ uploadProfilePicture
  \/ \E i \in Slots, resp \in Responses : uploadProfilePicture_response(i, resp)
  \/ \E r \in RecipeIds : fetchRecipeById(r)
  \/ \E i \in Slots, resp \in Responses : fetchRecipeById_response(i, resp)
  \/ submitRecipe
  \/ \E i \in Slots, resp \in Responses : submitRecipe_response(i, resp)
  \/ \E r \in RecipeIds : updateRecipe(r)
  \/ \E i \in Slots, resp \in Responses : updateRecipe_response(i, resp)
  \/ \E r \in RecipeIds : submitRating(r)
  \/ \E i \in Slots, resp \in Responses : submitRating_response(i, resp)
  \/ \E r \in RecipeIds : postComment(r)
  \/ \E i \in Slots, resp \in Responses : postComment_response(i, resp)
  \/ \E c \in CommentIds : deleteComment(c)
  \/ \E i \in Slots, resp \in Responses : deleteComment_response(i, resp)
  \/ \E r \in RecipeIds : saveRecipe(r)
  \/ \E i \in Slots, resp \in Responses : saveRecipe_response(i, resp)
  \/ \E r \in RecipeIds : unsaveRecipe(r)
  \/ \E i \in Slots, resp \in Responses : unsaveRecipe_response(i, resp)
  \/ fetchSavedRecipes
  \/ \E i \in Slots, resp \in Responses : fetchSavedRecipes_response(i, resp)

Init ==
  /\ StoreInit /\ FormInit /\ SavedViewInit /\ SearchInit /\ LoginInit /\ RegisterInit
  /\ RecipeViewInit /\ BrowseInit /\ DbInit
  /\ ProfileEditInit /\ PasswordResetInit /\ timers = <<>>
  /\ last_fetch = [pending |-> FALSE, result |-> Null]

\* In the specifications below the store's actions run one at a time: an action is
\* started only when no request is in flight.
Idle == inflight = <<>>

\* The session: login, logout and every action that sends the access token.
AuthNext ==
  \/ Idle /\ login
  \/ \E i \in Slots, resp \in Responses : login_response(i, resp)
  \/ logout
  \/ Idle /\ loadUserProfile
  \/ \E i \in Slots, resp \in Responses : loadUserProfile_response(i, resp)
  \/ Idle /\ updateUserProfile
  \/ \E i \in Slots, resp \in Responses : updateUserProfile_response(i, resp)
  \/ Idle /\ uploadProfilePicture
  \/ \E i \in Slots, resp \in Responses : uploadProfilePicture_response(i, resp)
  \/ Idle /\ submitRecipe
  \/ \E i \in Slots, resp \in Responses : submitRecipe_response(i, resp)
  \/ \E r \in RecipeIds : Idle /\ updateRecipe(r)
  \/ \E i \in Slots, resp \in Responses : updateRecipe_response(i, resp)
  \/ \E r \in RecipeIds : Idle /\ submitRating(r)
  \/ \E i \in Slots, resp \in Responses : submitRating_response(i, resp)
  \/ \E r \in RecipeIds : Idle /\ postComment(r)
  \/ \E i \in Slots, resp \in Responses : postComment_response(i, resp)
  \/ \E c \in CommentIds : Idle /\ deleteComment(c)
  \/ \E i \in Slots, resp \in Responses : deleteComment_response(i, resp)
  \/ \E r \in RecipeIds : Idle /\ saveRecipe(r)
  \/ \E i \in Slots, resp \in Responses : saveRecipe_response(i, resp)
  \/ \E r \in RecipeIds : Idle /\ unsaveRecipe(r)
  \/ \E i \in Slots, resp \in Responses : unsaveRecipe_response(i, resp)
  \/ Idle /\ fetchSavedRecipes
  \/ \E i \in Slots, resp \in Responses : fetchSavedRecipes_response(i, resp)

\* The recipe being viewed and the saved list, with the five mutations on them.
MutNext ==
  \/ \E r \in RecipeIds : Idle /\ fetchRecipeById(r)
  \/ \E i \in Slots, resp \in Responses : fetchRecipeById_response(i, resp)
  \/ \E r \in RecipeIds : Idle /\ submitRating(r)
  \/ \E i \in Slots, resp \in Responses : submitRating_response(i, resp)
  \/ \E r \in RecipeIds : Idle /\ postComment(r)
  \/ \E i \in Slots, resp \in Responses : postComment_response(i, resp)
  \/ \E c \in CommentIds : Idle /\ deleteComment(c)
  \/ \E i \in Slots, resp \in Responses : deleteComment_response(i, resp)
  \/ \E r \in RecipeIds : Idle /\ saveRecipe(r)
  \/ \E i \in Slots, resp \in Responses : saveRecipe_response(i, resp)
  \/ \E r \in RecipeIds : Idle /\ unsaveRecipe(r)
  \/ \E i \in Slots, resp \in Responses : unsaveRecipe_response(i, resp)
  \/ Idle /\ fetchSavedRecipes
  \/ \E i \in Slots, resp \in Responses : fetchSavedRecipes_response(i, resp)

\* The saved list with its three actions, started while others are in flight and
\* completed in any order.
SavedNext ==
  \/ Idle /\ login
  \/ \E i \in Slots, resp \in Responses : login_response(i, resp)
  \/ \E r \in RecipeIds : saveRecipe(r)
  \/ \E i \in Slots, resp \in Responses : saveRecipe_response(i, resp)
  \/ \E r \in RecipeIds : unsaveRecipe(r)
  \/ \E i \in Slots, resp \in Responses : unsaveRecipe_response(i, resp)
  \/ fetchSavedRecipes
  \/ \E i \in Slots, resp \in Responses : fetchSavedRecipes_response(i, resp)

\* Calls of fetchRecipeById that overlap, answered in any order.
RecipeFetchNext ==
  \/ \E r \in RecipeIds : fetchRecipeById_recorded(r)
  \/ \E i \in Slots, resp \in Responses : fetchRecipeById_response_recorded(i, resp)

\* The session with its requests overlapping: nothing waits for an earlier request to
\* be answered (the requests in flight are bounded by Slots).
SessionNext ==
  \/ login
  \/ \E i \in Slots, resp \in Responses : login_response(i, resp)
  \/ logout
  \/ register
  \/ \E i \in Slots, resp \in Responses : register_response(i, resp)
  \/ loadUserProfile
  \/ \E i \in Slots, resp \in Responses : loadUserProfile_response(i, resp)
  \/ fetchSavedRecipes
  \/ \E i \in Slots, resp \in Responses : fetchSavedRecipes_response(i, resp)

\* Notifications shown one after another, and their timers.
NotifyNext ==
  \/ \E message \in NotificationMessages, type \in NotificationTypes :
        showNotification_call(message, type)
  \/ showNotification_timeout

SpecAuth == Init /\ [][AuthNext]_vars
SpecSession == Init /\ [][SessionNext]_vars
SpecNotify == Init /\ [][NotifyNext]_vars
SpecRecipeFetch == Init /\ [][RecipeFetchNext]_vars
SpecMut == Init /\ [][MutNext]_vars
SpecSaved == Init /\ [][SavedNext]_vars
SpecRecipeForm == Init /\ [][FormNext]_vars
SpecRecipeSteps == Init /\ [][StepsNext]_vars
SpecSavedView == Init /\ [][SavedViewNext]_vars
SpecSearch == Init /\ [][SearchNext]_vars
SpecLogin == Init /\ [][LoginNext]_vars
SpecRegister == Init /\ [][RegisterNext]_vars
SpecRecipeView == Init /\ [][RecipeViewNext]_vars
SpecBrowse == Init /\ [][BrowseNext]_vars
SpecProfileEdit == Init /\ [][ProfileEditNext]_vars
SpecPasswordReset == Init /\ [][PasswordResetNext]_vars

\* React runs a passive effect after every render that changed one of its
\* dependencies, so a pending run of the URL sync effect does take place.
SpecBrowseEffects == Init /\ [][BrowseNext]_vars /\ WF_vars(URLSyncEffect_run)

\* A database filled by single-row statements of clients, with deletions.
DbNext ==
  \/ \E st \in DbStatements : INSERT_INTO(st)
  \/ \E user_id \in KeysOf("users") : DELETE_FROM_users(user_id)
  \/ \E recipe_id \in KeysOf("recipes") : DELETE_FROM_recipes(recipe_id)

SpecDb == Init /\ [][DbNext]_vars

\* The seed script run on the new schema, then deletions of seeded users.
SeedNext ==
  \/ \E on_error \in SeedErrorModes : seed_statement(on_error)
  \/ /\ db.seed_pc = Len(SeedScript)
     /\ \E user_id \in KeysOf("users") : DELETE_FROM_users(user_id)

SpecSeed == Init /\ [][SeedNext]_vars

(* ----------------------- claims on the store ------------------------- *)
\* The store actions that send the access token.
AuthenticatedOps ==
  {"loadUserProfile", "fetchSavedRecipes", "saveRecipe", "unsaveRecipe", "submitRating",
   "postComment", "deleteComment", "submitRecipe", "updateRecipe", "updateUserProfile",
   "uploadProfilePicture"}

\* C2: whenever an authenticated store action has received an HTTP 401 response, the
\* store is logged out: is_authenticated is false and access_token is null.
C2_Unauthorized401LogsOut ==
  (store_ev.phase = "done" /\ store_ev.status = 401 /\ store_ev.op \in AuthenticatedOps)
    => (~store.is_authenticated /\ store.access_token = NoToken)

\* The recipe r is the one loaded in current_recipe_details.
Loaded(r) ==
  IF IsNull(store.current_recipe_details) THEN FALSE
  ELSE Val(store.current_recipe_details).recipe_id = r

\* C9: one rating per user per recipe: a successful submitRating by a user who has
\* already rated the loaded recipe leaves its rating_count as it was.
C9_ReRatingKeepsCount ==
  [][\A i \in Slots, resp \in OkResponses :
       (/\ submitRating_response(i, resp)
        /\ <<TokenUser(inflight[i].tok), inflight[i].arg>> \in srv_ratings
        /\ Loaded(inflight[i].arg))
         => Val(store'.current_recipe_details).rating_count
              = Val(store.current_recipe_details).rating_count]_vars

\* The five mutations of C10, each with the value it returns on failure and the fixed
\* text of its error notification.
MutationOps == {"saveRecipe", "unsaveRecipe", "submitRating", "postComment", "deleteComment"}

FailureValue(op) == IF op = "postComment" THEN "null" ELSE "false"

FallbackText(op) ==
  CASE op = "saveRecipe" -> "Failed to save recipe"
    [] op = "unsaveRecipe" -> "Failed to unsave recipe"
    [] op = "submitRating" -> "Failed to submit rating"
    [] op = "postComment" -> "Failed to post comment"
    [] op = "deleteComment" -> "Failed to delete comment"

\* The responses that are HTTP error responses (a status was received).
HttpErrors == {resp \in ErrResponses : resp.status # 0}

\* C10: when one of the five mutations receives an HTTP error response it returns its
\* failure value, sets an error notification carrying the body's error field (else the
\* error's own message, else the action's fallback text), and leaves saved_recipes and
\* current_recipe_details unchanged.
C10_HttpErrorLeavesState ==
  [][\A i \in Slots, resp \in HttpErrors :
       (/\ i <= Len(inflight)
        /\ inflight[i].op \in MutationOps
        /\ \/ saveRecipe_response(i, resp)
           \/ unsaveRecipe_response(i, resp)
           \/ submitRating_response(i, resp)
           \/ postComment_response(i, resp)
           \/ deleteComment_response(i, resp))
         => /\ store_ev'.ret = FailureValue(inflight[i].op)
            /\ store'.notification =
                 Some([message |-> IF resp.body_error # "" THEN resp.body_error
                                   ELSE IF resp.err_message # "" THEN resp.err_message
                                   ELSE FallbackText(inflight[i].op),
                       type |-> "error"])
            /\ store'.saved_recipes = store.saved_recipes
            /\ store'.saved_recipes_defined = store.saved_recipes_defined
            /\ store'.current_recipe_details = store.current_recipe_details]_vars

\* C10's case: saveRecipe has just failed on an HTTP error while a recipe is loaded
\* and the saved list is not empty.
C10_Witness ==
  /\ store_ev.op = "saveRecipe" /\ store_ev.phase = "done" /\ store_ev.status = 500
  /\ store_ev.ret = "false"
  /\ store.saved_recipes # <<>>
  /\ ~IsNull(store.current_recipe_details)
  /\ store.notification = Some([message |-> "body error", type |-> "error"])

\* The entries of list other than those of recipe r, in their order.
OtherEntries(list, r) == SelectSeq(list, LAMBDA e : e.recipe_id # r)

C15_AuthorizationIsCurrentToken ==
  \A i \in 1..Len(inflight) :
     inflight[i].auth = IF inflight[i].tok = NoToken THEN <<>>
                        ELSE Bearer(inflight[i].tok)

\* C18: whatever the order in which saveRecipe, unsaveRecipe and fetchSavedRecipes
\* are started and completed, saved_recipes never holds two entries with the same
\* recipe_id.
C18_OneSavedEntryPerRecipe ==
  \A j, k \in 1..Len(store.saved_recipes) :
    store.saved_recipes[j].recipe_id = store.saved_recipes[k].recipe_id => j = k

\* A save has completed and put its recipe in the list while a second save of the
\* same recipe is still in flight.
C18_Witness ==
  /\ store_ev.op = "saveRecipe" /\ store_ev.phase = "done" /\ store_ev.ret = "true"
  /\ Len(store.saved_recipes) = 1
  /\ \E i \in 1..Len(inflight) :
       inflight[i].op = "saveRecipe" /\ inflight[i].arg = store.saved_recipes[1].recipe_id

Submitted == form.mounted /\ form.ev.op = "handle_recipe_submit"

\* C3: only the recipe's owner edits it from the client: every PUT /recipes/{id} the
\* form has sent was sent by the recipe's submitter.
C3_OnlyOwnerSendsUpdate ==
  \A k \in 1..Len(form.requests) :
     form.requests[k].method = "PUT"
       => RecipeOwner(form.requests[k].recipe_id) = form.requests[k].user

\* C3's case: a user who is not the submitter of recipe 2 has opened its edit form,
\* the recipe has loaded complete, and the user has submitted the form.
C3_Witness ==
  /\ Submitted
  /\ form.is_editing /\ form.current_recipe_id = Some(2)
  /\ TokenUser(store.access_token) # RecipeOwner(2)
  /\ RecipeFormErrors(form.recipe_form_data) = {}
  /\ form.requests = <<>>

\* C5: submitting the form while the title is empty or only whitespace records the
\* error 'Recipe title is required.' for the title and sends no request.
C5_BlankTitleIsRejected ==
  (Submitted /\ Trim(form.recipe_form_data.title) = <<>>)
    => /\ <<"title", "Recipe title is required.">> \in form.form_errors
       /\ ~form.ev.sent
       /\ form.requests = <<>>

\* C5's case: the form was submitted complete except for a title of one space.
C5_Witness ==
  /\ Submitted
  /\ form.recipe_form_data.title = <<" ">>
  /\ RecipeFormErrors([form.recipe_form_data EXCEPT !.title = <<"a">>]) = {}
  /\ <<"title", "Recipe title is required.">> \in form.form_errors

\* C6: validation judges the form data as it stands at submit: when every required
\* field has been entered, handle_recipe_submit starts the create request or, in
\* edit mode, the update request.
C6_CompleteFormIsSent ==
  (Submitted /\ RecipeFormErrors(form.recipe_form_data) = {})
    => /\ form.ev.sent
       /\ form.requests # <<>>
       /\ form.requests[Len(form.requests)].method
            = (IF form.is_editing THEN "PUT" ELSE "POST")

\* C16: whatever steps were added, removed and edited, the instructions of the
\* request body built from the form carry the step numbers 1..n in the displayed
\* order with the displayed descriptions, and so do the instructions of every
\* request the form has sent.
C16_StepNumbersAreOneToN ==
  LET shown == form.recipe_form_data.instructions
      sent == InstructionsPayload(shown)
  IN  /\ Len(sent) = Len(shown)
      /\ \A k \in 1..Len(sent) :
            sent[k].step_number = k /\ sent[k].description = shown[k].description
      /\ \A q \in 1..Len(form.requests) :
            \A k \in 1..Len(form.requests[q].instructions) :
               form.requests[q].instructions[k].step_number = k

\* After a removal the form holds two steps whose own numbers are not 1, 2, the second
\* of them edited.
C16_Witness ==
  /\ form.mounted
  /\ Len(form.recipe_form_data.instructions) = 2
  /\ form.recipe_form_data.instructions[1].step_number = 2
  /\ form.recipe_form_data.instructions[2].description # <<>>
  /\ InstructionsPayload(form.recipe_form_data.instructions)
       # form.recipe_form_data.instructions

(* --------------------- claims on the search view ---------------------- *)
SearchHandlers ==
  {"handleFilterChange", "handleSortChange", "handlePageChange", "handleClearFilters"}

\* The filters, sort order and page that the query string, the view's state hooks and
\* the store hold.
UrlListState(v) ==
  [ filters |-> InitialFilterParams(v.searchParams),
    sort |-> SortOrderOf(v.searchParams),
    page |-> PageOf(v.searchParams) ]

LocalListState(v) ==
  [ filters |-> v.local_filter_params, sort |-> v.local_sort_order, page |-> v.local_page ]

StoreListState(s) ==
  [ filters |-> s.filter_params, sort |-> s.sort_order, page |-> s.current_page ]

\* C4: after each handleFilterChange, handleSortChange, accepted handlePageChange or
\* handleClearFilters of the search view, the query string, the view's state hooks
\* and the store hold the same filters, sort order and page; after a filter change,
\* a sort change or a clear that page is 1; and the parameter q is what it was.
C4_UrlStateAndStoreAgree ==
  [][search'.ev \in SearchHandlers /\ search' # search =>
       /\ UrlListState(search') = LocalListState(search')
       /\ LocalListState(search') = StoreListState(store')
       /\ search'.ev # "handlePageChange" => LocalListState(search').page = 1
       /\ search'.searchParams.q = search.searchParams.q]_vars

\* C14: once the query string has changed by navigation while the view is mounted (a
\* tag link of a result card was followed) and the render's effect has run, the
\* filters, sort order and page of the state hooks, which the next search request is
\* made with, are those of the query string.
C14_RequestFollowsNavigatedUrl ==
  search.ev = "FollowTagLink" => LocalListState(search) = UrlListState(search)

(* ---------------------- claims on the login view ---------------------- *)
\* A text of the form local@domain.tld without whitespace.
IsEmailForm(text) ==
  /\ \A k \in DOMAIN text : text[k] # " "
  /\ \E at \in DOMAIN text, dot \in DOMAIN text :
       /\ text[at] = "@"
       /\ at > 1
       /\ \A k \in 1..(at - 1) : text[k] # "@"
       /\ dot > at + 1
       /\ text[dot] = "."
       /\ dot < Len(text)

\* C7: whenever handle_login has run on an email of the form local@domain.tld without
\* whitespace and a password that is not blank, validate_login_input accepted them
\* and the store's login was called with that email and password.
C7_WellFormedLoginCallsStore ==
  LET d == login_view.login_form_data
  IN  (/\ login_view.ev = "handle_login"
       /\ IsEmailForm(d.email)
       /\ Trim(d.password) # <<>>)
      => /\ validate_login_input(d) = <<>>
         /\ login_view.login_called = Some(d)
         /\ store_ev.op = "login"

(* ------------------ claims on the registration view ------------------- *)
\* An email local@domain.tld whose domain labels are of letters, digits and hyphens
\* and whose top-level label is of two letters or more.
IsRegisterEmailForm(text) ==
  \E at \in DOMAIN text, dot \in DOMAIN text :
    /\ text[at] = "@"
    /\ at > 1
    /\ \A k \in 1..(at - 1) : text[k] \notin {"@", " "}
    /\ dot > at + 1
    /\ text[dot] = "."
    /\ \A k \in (at + 1)..(dot - 1) :
         IsLetter(text[k]) \/ IsDigit(text[k]) \/ text[k] \in {"-", "."}
    /\ \A k \in (at + 1)..(dot - 1) :
         text[k] = "." => text[k - 1] \notin {".", "@"} /\ k + 1 < dot
    /\ Len(text) - dot >= 2
    /\ \A k \in (dot + 1)..Len(text) : IsLetter(text[k])

\* A password of 8 characters or more with a letter, a digit and a special character.
IsStrongPassword(text) ==
  /\ Len(text) >= 8
  /\ \E k \in DOMAIN text : IsLetter(text[k])
  /\ \E k \in DOMAIN text : IsDigit(text[k])
  /\ \E k \in DOMAIN text : text[k] \in PasswordSpecials

\* C8: whenever handle_register_submit has run on a non-empty username, an email of
\* the form local@domain.tld and a password of at least 8 characters with a letter, a
\* digit and a special character, validate_form accepted them and the store's
\* register was called.
C8_WellFormedRegistrationCallsStore ==
  LET d == register_view.registration_form_data
  IN  (/\ register_view.ev = "handle_register_submit"
       /\ ~Falsy(d.username) /\ ~Falsy(d.email) /\ ~Falsy(d.password)
       /\ IsRegisterEmailForm(Val(d.email))
       /\ IsStrongPassword(Val(d.password)))
      => /\ validate_form(d) = NoRegisterErrors
         /\ register_view.register_called = Some(d)
         /\ store_ev.op = "register"

(* -------------------- claims on the recipe view ----------------------- *)
\* A step of the view sent a request of store action op for arg.
Sent(op, arg) ==
  /\ Len(inflight') = Len(inflight) + 1
  /\ inflight'[Len(inflight')].op = op
  /\ inflight'[Len(inflight')].arg = arg

\* C12: a delete request for a comment is sent from the recipe view only while the
\* user is authenticated and the store's user_profile_summary.user_id is the user_id
\* of the comment's author.
C12_OnlyAuthorDeletesComment ==
  [][\A c \in CommentIds :
       Sent("deleteComment", c)
         => /\ store.is_authenticated
            /\ ~IsNull(store.user_profile_summary)
            /\ Val(store.user_profile_summary).user_id = CommentAuthor(c)]_vars

\* The author's delete request is in flight, and (in another run) a comment of another
\* user is displayed to a logged-in user.
C12_Witness ==
  /\ recipe_view.ev = "deleteCommentMutation_mutate"
  /\ \E k \in 1..Len(inflight) :
        /\ inflight[k].op = "deleteComment"
        /\ inflight[k].arg \in DisplayedComments
        /\ CommentAuthor(inflight[k].arg) = TokenUser(inflight[k].tok)

C25_SavedFlagFollowsSavedList ==
  [][/\ (/\ recipe_view.mounted
         /\ store'.is_authenticated
         /\ recipe_view'.ev \in {"recipeQuery_settle", "savedRecipesQuery_settle",
                                 "TypeError"}
         /\ recipe_view'.savedRecipesList = Some(TRUE)
         /\ IF store_ev'.op = "fetchRecipeById"
            THEN ~IsNull(store'.current_recipe_details)
            ELSE ~IsNull(recipe_view.recipe_details))
           => /\ recipe_view'.mounted
              /\ recipe_view'.is_recipe_saved
                   <=> HasRecipe(store'.saved_recipes, recipe_view.recipe_id)
     /\ (/\ recipe_view'.ev = "saveUnsaveMutation_resume"
         /\ ~IsNull(recipe_view.is_saving)
         /\ store_ev'.ret = "true")
           => recipe_view'.is_recipe_saved = Val(recipe_view.is_saving)
    ]_vars

(* -------------------- claims on the browse view ----------------------- *)
\* C13: the filters that handleApplyFilters has just written to the query string are
\* the ones the view's parsing of that query string yields: the same tags, difficulty
\* levels, max_prep_time, max_cook_time and min_rating (an absent list parameter
\* counting as the empty list).
C13_AppliedFiltersReadBackUnchanged ==
  browse.ev = "handleApplyFilters"
    => LET parsed == UrlFilters(browse.searchParams)
           written == browse.applied
       IN  /\ (IF IsNull(parsed.tags) THEN <<>> ELSE Val(parsed.tags))
                = OrEmpty(written.tags)
           /\ (IF IsNull(parsed.difficulty) THEN <<>> ELSE Val(parsed.difficulty))
                = OrEmpty(written.difficulty)
           /\ parsed.max_prep_time = written.max_prep_time
           /\ parsed.max_cook_time = written.max_cook_time
           /\ parsed.min_rating = written.min_rating


\* What a filter state holds under a key: for tags and difficulty the set of the
\* selected options (null when the state holds no array), else the number or null.
SelectedUnder(filters, key) ==
  IF key \in {"tags", "difficulty"}
  THEN IF IsArray(filters[key])
       THEN Some({filters[key][k] : k \in 1..Len(filters[key])})
       ELSE Null
  ELSE filters[key]

SelectionHandlers ==
  {"handleTagFilterToggle", "handleDifficultyFilterFilterToggle", "handleFilterChange"}

\* C21: the effects that run after the user has selected a filter value leave every
\* filter of the local state as the selection made it, and leave the store's
\* filter_params.tags and filter_params.difficulty arrays; and handleApplyFilters
\* writes the local filters to the store and each of their values to the query string.
C21_SelectionStaysUntilApplied ==
  [][/\ (browse.ev \in SelectionHandlers /\ browse'.ev = "URLSyncEffect")
          => /\ \A key \in DOMAIN DefaultFilterParams :
                  SelectedUnder(browse'.localFilterParams, key)
                    = SelectedUnder(browse.localFilterParams, key)
             /\ IsArray(store'.filter_params.tags)
             /\ IsArray(store'.filter_params.difficulty)
     /\ browse'.ev = "handleApplyFilters"
          => /\ store'.filter_params = browse.localFilterParams
             /\ browse'.searchParams
                  = AppliedSearchParams(browse.localFilterParams, browse.localSortOrder)
    ]_vars

\* C23: whatever the query string, the URL sync effect, once a render has made it
\* pending, reaches a state in which it has no further run to make.
C23_URLSyncEffectSettles == browse.dirty ~> ~browse.dirty

(* ------------------ claims on the profile edit view ------------------- *)
\* C24: when handleSaveProfileDetails runs with the password section shown, a username
\* of three or more characters, a current password given and a new password of eight
\* or more characters that differs from it, it sets no error and sends the update
\* request with that current_password and new_password.
C24_PasswordChangeIsSent ==
  [][(/\ ProfileEditReady
      /\ profile_edit.password_section_visible
      /\ Len(profile_edit.profile_data.username) >= 3
      /\ profile_edit.profile_data.current_password # <<>>
      /\ Len(profile_edit.profile_data.new_password) >= 8
      /\ profile_edit.profile_data.new_password
           # profile_edit.profile_data.current_password
      /\ profile_edit'.ev = "handleSaveProfileDetails")
        => /\ profile_edit'.form_errors = {}
           /\ ~IsNull(profile_edit'.request)
           /\ Val(profile_edit'.request).body.passwords
                = Some([current_password |-> profile_edit.profile_data.current_password,
                        new_password |-> profile_edit.profile_data.new_password])]_vars

(* ----------------- claims on the password reset view ------------------- *)
\* The policy of a new password: eight or more characters, with a lowercase letter,
\* an uppercase letter, a digit and a character that is none of these.
MeetsPasswordPolicy(text) ==
  /\ Len(text) >= 8
  /\ \E k \in DOMAIN text : IsLowercase(text[k])
  /\ \E k \in DOMAIN text : IsUppercase(text[k])
  /\ \E k \in DOMAIN text : IsDigit(text[k])
  /\ \E k \in DOMAIN text :
        ~(IsLowercase(text[k]) \/ IsUppercase(text[k]) \/ IsDigit(text[k]))

\* C26: on a location with a :reset_token segment the view, once its effect has run,
\* shows the form, and handle_submit with a new password of the policy and an equal
\* confirmation sends the request with the segment's token; on a location without a
\* token the effect leaves the 'Missing reset token' error, the form hidden and no
\* request.
C26_ResetCarriesRouteToken ==
  [][/\ (/\ password_reset'.ev = "MissingTokenEffect"
         /\ ~IsNull(password_reset.location.route_token)
         /\ password_reset.ev = "OpenPasswordReset")
           => password_reset'.is_token_valid
     /\ (/\ password_reset'.ev = "handle_submit"
         /\ ResetFormShown
         /\ ~IsNull(password_reset.location.route_token)
         /\ MeetsPasswordPolicy(password_reset.password_reset_data.new_password)
         /\ password_reset.password_reset_data.confirm_password
              = password_reset.password_reset_data.new_password)
           => /\ ~IsNull(password_reset'.request)
              /\ Val(password_reset'.request).reset_token
                   = Val(password_reset.location.route_token)
     /\ (/\ password_reset'.ev = "MissingTokenEffect"
         /\ IsNull(password_reset.location.route_token)
         /\ IsNull(password_reset.location.query_token))
           => /\ password_reset'.form_errors.general
                   = "Invalid request: Missing reset token."
              /\ ~password_reset'.is_token_valid
              /\ IsNull(password_reset'.request)
    ]_vars

(* ------------------ claims on the session's requests ------------------- *)
\* The session data that logout clears.
SessionCleared(s) ==
  /\ IsNull(s.user_profile_summary)
  /\ IsNull(s.current_user_profile)
  /\ s.saved_recipes = <<>>

\* C22: once logout has run, a step that is not a successful login leaves
\* user_profile_summary and current_user_profile null and saved_recipes empty, also
\* when the step is the completion of a request that was started before the logout.
C22_LogoutOutlivesRequests ==
  [][(/\ store_ev.op = "logout"
      /\ ~(store_ev'.op = "login" /\ store_ev'.phase = "done" /\ store_ev'.status = 200))
        => SessionCleared(store')]_vars

\* C27: when no fetchRecipeById call is in flight any more, current_recipe_details is
\* what the most recently started call resolved to.
C27_LatestFetchWins ==
  (/\ ~last_fetch.pending
   /\ ~IsNull(last_fetch.result)
   /\ \A k \in 1..Len(inflight) : inflight[k].op # "fetchRecipeById")
    => store.current_recipe_details = Val(last_fetch.result)

\* C28: the callback of a timer leaves the notification alone unless the notification
\* displayed is the one that the timer's showNotification call displayed.
C28_TimerClearsOwnNotification ==
  [][(showNotification_timeout /\ ~Head(timers).displayed)
       => store'.notification = store.notification]_vars

\* C29: in every state of the store is_authenticated is true exactly when access_token
\* is not null, however login (answered with success or failure), logout, register,
\* loadUserProfile and fetchSavedRecipes overlap; and no step of register changes
\* is_authenticated or access_token.
AuthenticatedIffToken == store.is_authenticated <=> (store.access_token # NoToken)

RegisterKeepsSession ==
  store_ev'.op = "register"
    => /\ store'.is_authenticated = store.is_authenticated
       /\ store'.access_token = store.access_token

C29_AuthenticatedExactlyWithToken ==
  /\ []AuthenticatedIffToken
  /\ [][RegisterKeepsSession]_vars

\* A registration is answered while a session is open and the loadUserProfile call
\* of its login is still unanswered.
C29_Witness ==
  /\ store_ev.op = "register"
  /\ store_ev.phase = "done"
  /\ store.is_authenticated
  /\ store.access_token # NoToken
  /\ \E k \in 1..Len(inflight) : inflight[k].op = "loadUserProfile"

\* C30: when the results have at least two pages and the page shown lies within
\* 1..total_pages, the page-number buttons of the search view are pairwise distinct,
\* all within 1..total_pages, and one of them is the page shown; and handlePageChange,
\* called with a page outside 1..total_pages, leaves the page as it was.
PageButtonsWellFormed ==
  (/\ search.mounted
   /\ ~IsNull(search.searchResults)
   /\ Val(search.searchResults).total_pages >= 2
   /\ search.local_page \in 1..Val(search.searchResults).total_pages)
    => LET total_pages == Val(search.searchResults).total_pages
           buttons == PageButtons(search.local_page, total_pages)
       IN  /\ \A m, n \in DOMAIN buttons : m # n => buttons[m] # buttons[n]
           /\ \A n \in DOMAIN buttons : buttons[n] \in 1..total_pages
           /\ \E n \in DOMAIN buttons : buttons[n] = search.local_page

PageOutOfRangeIgnored ==
  \A pageNumber \in PageNumbers :
    (/\ handlePageChange(pageNumber)
     /\ ~IsNull(search.searchResults)
     /\ pageNumber \notin 1..Val(search.searchResults).total_pages)
      => /\ search'.local_page = search.local_page
         /\ search'.searchParams = search.searchParams
         /\ store'.current_page = store.current_page

C30_PageButtonsAndPageChange ==
  /\ []PageButtonsWellFormed
  /\ [][PageOutOfRangeIgnored]_vars

(* --------------------- claims on the database ------------------------- *)
\* No row of table t refers, by its user_id or its recipe_id, to a row that users or
\* recipes does not hold.
NoDanglingReference(t) ==
  \A r \in db.tables[t] :
    /\ (t # "users" /\ "user_id" \in DOMAIN r)
         => \E u \in db.tables["users"] : u["user_id"] = r["user_id"]
    /\ (t # "recipes" /\ "recipe_id" \in DOMAIN r)
         => \E p \in db.tables["recipes"] : p["recipe_id"] = r["recipe_id"]

\* C17: after a user or a recipe is deleted, the deleted row is gone and no row of
\* recipes, ingredients, instructions, recipe_tags, ratings, comments or
\* saved_recipes refers to a user or a recipe that the database does not hold:
\* deleting a user removes the user's recipes and, with them, their dependents.
C17_DeleteCascadesToDependents ==
  db.ev.op = "DELETE" =>
    /\ ~\E r \in db.tables[db.ev.table] : r[SerialKey[db.ev.table]] = db.ev.key
    /\ \A t \in Tables \ {"users"} : NoDanglingReference(t)

\* A user was deleted, and the deletion removed a recipe of the user and a
\* dependent of that recipe.
C17_Witness ==
  /\ db.ev.op = "DELETE"
  /\ db.ev.table = "users"
  /\ "recipes" \in db.ev.deleted
  /\ db.ev.deleted \cap {"ingredients", "instructions", "recipe_tags"} # {}

\* The database holds the row that a statement gave: the literals of the row are
\* read by their columns' types and a stored row has the values they denote.
HoldsRow(t, row) ==
  /\ \A c \in DOMAIN row : ~LiteralError(Columns[t][c], row[c])
  /\ \E o \in db.tables[t] :
       \A c \in DOMAIN row : o[c] = StoredValue(Columns[t][c], row[c])

\* C20: every statement of the seed script succeeds, so that once it has run the
\* database holds every row the statement gives.
C20_SeedRowsAllStored ==
  db.ev.op = "SEED" =>
    /\ db.ev.error = ""
    /\ \A k \in 1..db.seed_pc :
         \A j \in 1..Len(SeedScript[k].rows) :
           HoldsRow(SeedScript[k].table, SeedScript[k].rows[j])

Next ==
  \/ StoreNext
  \/ FormNext
  \/ StepsNext
  \/ SavedViewNext
  \/ SearchNext
  \/ LoginNext
  \/ RegisterNext
  \/ RecipeViewNext
  \/ BrowseNext
  \/ ProfileEditNext
  \/ PasswordResetNext
  \/ RecipeFetchNext
  \/ SessionNext
  \/ NotifyNext
  \/ DbNext
  \/ SeedNext
  \/ \E resp \in OkResponses : mutation_onSuccess(resp)
  \/ \E resp \in ErrResponses : mutation_onError(resp)

Spec == Init /\ [][Next]_vars
====
